---------------------------- MODULE Spec2Model ----------------------------
(***************************************************************************)
(* A model of montague, a recursive DNS resolver with a UDP front end.     *)
(*                                                                         *)
(* Bytes are integers 0..255, a label (a Rust String) is the sequence of   *)
(* its bytes, a name (Vec<String>) is a sequence of labels, a buffer is a  *)
(* sequence of bytes.  Rust positions are 0-based; a TLA+ sequence is      *)
(* 1-based, so the byte at Rust position p is bytes[p + 1].                *)
(*                                                                         *)
(* Every fallible operation returns a record whose field st is             *)
(*   "ok"       the Ok(..) value                                           *)
(*   "err"      Err(DnsFormatError), with the error's partial packet       *)
(*   "panic"    a Rust panic (slice index out of range, expect, unwrap)    *)
(*   "overflow" the call stack is exhausted by unbounded recursion         *)
(***************************************************************************)
EXTENDS Integers, Sequences, FiniteSets, TLC

VARIABLES
    \* ---- the name decoder run step by step (SpecName)
    nm_bytes,      \* the buffer handed to deserialize_name
    nm_start,      \* the start position handed to deserialize_name
    nm_state,      \* the decoder: its call frames and, at the end, its result
    \* ---- the server worker and the resolver it runs (Spec)
    pc,            \* where the acceptor / the worker is
    dgram,         \* the datagram received from the client
    packet,        \* the request decoded from it
    stack,         \* the resolve_question calls in progress, outermost first
    ret,           \* what the outermost resolve_question call returned
    results,       \* the Ok value of resolve_query, handed to respond
    sent,          \* the last upstream query sent: the nameserver and the bytes
    last_reply,    \* the reply the last upstream query received, decoded, and
                   \* the depth of the call that received it
    call_ret,      \* what that call returned, when it returned on receiving it
    out,           \* the datagrams sent for the datagram being served
    \* ---- the pure functions applied to drawn inputs (SpecCodec, SpecErr)
    cd_in,         \* the packet drawn
    cd_bytes,      \* its encoding
    cd_out,        \* the decoding of the encoding
    er_in,         \* the format error drawn
    er_out,        \* what get_error_response returned for it
    \* ---- the field codecs applied to drawn inputs (SpecFlags, SpecRecord,
    \*      SpecInt)
    fl_in,         \* the flag word or the DnsFlags value drawn
    fl_out,        \* its decoding and the encoding of that, or the reverse
    rr_in,         \* the bytes of a resource record drawn
    rr_out,        \* the record decoded from them and its encoding
    int_in,        \* the integer drawn and the bytes that follow its encoding
    int_out,       \* its bytes and the integer read back from them
    \* ---- the acceptor and the workers it spawned, side by side (SpecPool)
    process,       \* "running", or "aborted" once a thread overflowed its stack
    accepted,      \* the number of datagrams main's loop has received
    pool,          \* the worker spawned for each of them: its datagram and
                   \* where it is
    emitted        \* the datagrams sent through the shared socket, in order

vars == <<nm_bytes, nm_start, nm_state, pc, dgram, packet, stack, ret, results,
          sent, last_reply, call_ret, out, cd_in, cd_bytes, cd_out, er_in, er_out,
          fl_in, fl_out, rr_in, rr_out, int_in, int_out,
          process, accepted, pool, emitted>>

nameVars == <<nm_bytes, nm_start, nm_state>>
serverVars == <<pc, dgram, packet, stack, ret, results, sent, last_reply, call_ret, out>>
codecVars == <<cd_in, cd_bytes, cd_out>>
errVars == <<er_in, er_out>>
flagsVars == <<fl_in, fl_out>>
recordVars == <<rr_in, rr_out>>
intVars == <<int_in, int_out>>
fieldVars == <<flagsVars, recordVars, intVars>>
poolVars == <<process, accepted, pool, emitted>>

-----------------------------------------------------------------------------
(* Bounds of the model *)

\* the longest buffer handed to the name decoder in SpecName
MaxBufLen == 4
\* the number of nested deserialize_name calls the stack holds before it
\* overflows (the real number depends on the build and the thread's stack
\* size; it is finite)
StackFrames == 6
\* the number of nested resolve_question calls the model follows; the code
\* has no such limit
MaxNest == 3
\* the number of datagrams main's loop receives in SpecPool; the loop itself
\* never ends
MaxAccepted == 2

-----------------------------------------------------------------------------
(* Sequence helpers *)

\* bytes[from..to) in Rust positions; the caller has checked the range
Slice(bytes, from, to) == SubSeq(bytes, from + 1, to)

-----------------------------------------------------------------------------
(* bigendians.rs *)

to_u16(bytes) == (bytes[1] * 256 + bytes[2]) % 65536

\* A u32 does not fit TLC's 32-bit signed integers: it is kept as the pair
\* <<high 16 bits, low 16 bits>>, so the value is hi * 65536 + lo.
to_u32(bytes) ==
    << (bytes[1] * 256 + bytes[2]) % 65536, (bytes[3] * 256 + bytes[4]) % 65536 >>

from_u16_little_endian(num) == << num % 256, (num \div 256) % 256 >>

from_u16(num) == << (num \div 256) % 256, num % 256 >>

from_u32(num) ==
    << (num[1] \div 256) % 256, num[1] % 256, (num[2] \div 256) % 256, num[2] % 256 >>

-----------------------------------------------------------------------------
(* names.rs *)

\* String::from_utf8(..).is_ok(): the bytes are well-formed UTF-8
RECURSIVE IsUtf8(_)
IsUtf8(bs) ==
    IF bs = <<>> THEN TRUE
    ELSE LET b == bs[1]
             n == Len(bs)
             Cont(i) == i <= n /\ bs[i] >= 128 /\ bs[i] <= 191
             Rest(k) == IsUtf8(SubSeq(bs, k + 1, n))
         IN  IF b < 128 THEN Rest(1)
             ELSE IF b >= 194 /\ b <= 223 THEN Cont(2) /\ Rest(2)
             ELSE IF b = 224 THEN n >= 2 /\ bs[2] >= 160 /\ bs[2] <= 191 /\ Cont(3) /\ Rest(3)
             ELSE IF b = 237 THEN n >= 2 /\ bs[2] >= 128 /\ bs[2] <= 159 /\ Cont(3) /\ Rest(3)
             ELSE IF b >= 225 /\ b <= 239 THEN Cont(2) /\ Cont(3) /\ Rest(3)
             ELSE IF b = 240 THEN n >= 2 /\ bs[2] >= 144 /\ bs[2] <= 191 /\ Cont(3) /\ Cont(4) /\ Rest(4)
             ELSE IF b >= 241 /\ b <= 243 THEN Cont(2) /\ Cont(3) /\ Cont(4) /\ Rest(4)
             ELSE IF b = 244 THEN n >= 2 /\ bs[2] >= 128 /\ bs[2] <= 143 /\ Cont(3) /\ Cont(4) /\ Rest(4)
             ELSE FALSE

\* The decoder at the entry of deserialize_name(bytes, start): one call frame
\* with no labels read yet.
NameInit(start) ==
    [st |-> "run", frames |-> << [labels |-> <<>>, pos |-> start] >>,
     labels |-> <<>>, pos |-> 0, derefs |-> 0]

NameEnd_as_panic(s, status) == [s EXCEPT !.st = "panic", !.frames = <<>>]

NameEnd(s, status) == [s EXCEPT !.st = status, !.frames = <<>>]

\* The innermost call breaks out of its loop with (labels, pos): every caller
\* appends the labels to its own, advances by the two bytes of its pointer and
\* breaks too.
RECURSIVE NameReturn(_, _, _)
RECURSIVE NameReturn_callee_pos(_, _, _)
NameReturn_callee_pos(frames, labels, pos) ==
    IF Len(frames) = 0 THEN [labels |-> labels, pos |-> pos]
    ELSE NameReturn_callee_pos(SubSeq(frames, 1, Len(frames) - 1),
                               frames[Len(frames)].labels \o labels, pos)

NameReturn(frames, labels, pos) ==
    IF Len(frames) = 0 THEN [labels |-> labels, pos |-> pos]
    ELSE LET f == frames[Len(frames)]
         IN  NameReturn(SubSeq(frames, 1, Len(frames) - 1), f.labels \o labels, f.pos + 2)

NameStepUnbounded(bytes, s) ==
    LET n == Len(s.frames)
        f == s.frames[n]
        below == SubSeq(s.frames, 1, n - 1)
        packet_len == Len(bytes)
        Finish(labels, pos) ==
            LET r == NameReturn(below, labels, pos)
            IN  [s EXCEPT !.st = "ok", !.frames = <<>>, !.labels = r.labels, !.pos = r.pos]
    IN  IF f.pos >= packet_len THEN NameEnd(s, "err")
        ELSE LET len_byte == bytes[f.pos + 1]
                 kind == (len_byte \div 64) % 4
             IN  IF kind = 3 THEN
                     IF f.pos + 1 >= packet_len THEN NameEnd(s, "err")
                     ELSE LET pointer_start == (len_byte % 64) * 256 + bytes[f.pos + 2]
                          IN  [s EXCEPT !.frames = Append(@, [labels |-> <<>>, pos |-> pointer_start]),
                                        !.derefs = @ + 1]
                 ELSE IF kind = 0 THEN
                     LET length == len_byte
                         pos == f.pos + 1
                     IN  IF length = 0 THEN Finish(f.labels, pos)
                         ELSE IF pos + length >= packet_len THEN NameEnd(s, "err")
                         ELSE LET label == Slice(bytes, pos, pos + length)
                              IN  IF ~IsUtf8(label) THEN NameEnd(s, "panic")
                                  ELSE [s EXCEPT !.frames[n] =
                                           [labels |-> Append(f.labels, label), pos |-> pos + length]]
                 ELSE NameEnd(s, "err")

\* A call that does not fit on the stack ends the process.
NameStackCheck(t) ==
    IF t.st = "run" /\ Len(t.frames) > StackFrames THEN NameEnd(t, "overflow") ELSE t

\* One iteration of the loop of the innermost deserialize_name call.
NameStep(bytes, s) == NameStackCheck(NameStepUnbounded(bytes, s))

RECURSIVE NameRun(_, _)
NameRun(bytes, s) == IF s.st # "run" THEN s ELSE NameRun(bytes, NameStep(bytes, s))

deserialize_name(bytes, start) == NameRun(bytes, NameInit(start))

RECURSIVE serialize_name(_)
serialize_name_no_root(name) ==
    IF name = <<>> THEN <<>>
    ELSE << Len(Head(name)) % 256 >> \o Head(name) \o serialize_name(Tail(name))

serialize_name(name) ==
    IF name = <<>> THEN << 0 >>
    ELSE << Len(Head(name)) % 256 >> \o Head(name) \o serialize_name(Tail(name))

-----------------------------------------------------------------------------
(* opcode.rs, rcode.rs, rrtype.rs, class.rs: the enumerations *)

\* FromPrimitive::from_u8 of DnsOpcode is Some exactly on these
DnsOpcodeValues == {0, 1, 2, 4, 5, 6}

\* FromPrimitive::from_u8 of DnsRCode is Some exactly on these
DnsRCodeValues == 0..11

\* FromPrimitive::from_u16 of DnsRRType is Some exactly on these
DnsRRTypeValues == (1..53) \cup (55..63) \cup (99..109) \cup (249..260) \cup {32768, 32769}

Opcode_Query == 0
Opcode_Status == 2
RCode_NoError == 0
RCode_FormError == 1
RCode_ServFail == 2
RCode_NXDomain == 3
RRType_A == 1
RRType_NS == 2
RRType_CNAME == 5
RRType_SOA == 6
RRType_TXT == 16
RRType_AAAA == 28
RRType_OPT == 41

\* A DnsClass value: one of the six plain variants, or EdnsPayloadSize(payload)
Class(tag) == [tag |-> tag, payload |-> 0]
EdnsPayloadSize(payload) == [tag |-> "EdnsPayloadSize", payload |-> payload]

DnsClass_from_u16(class) ==
    CASE class = 1 -> [some |-> TRUE, v |-> Class("IN")]
      [] class = 2 -> [some |-> TRUE, v |-> Class("CS")]
      [] class = 3 -> [some |-> TRUE, v |-> Class("CH")]
      [] class = 4 -> [some |-> TRUE, v |-> Class("HS")]
      [] class = 254 -> [some |-> TRUE, v |-> Class("NONE")]
      [] class = 255 -> [some |-> TRUE, v |-> Class("ANY")]
      [] OTHER -> [some |-> FALSE, v |-> Class("IN")]

DnsClass_to_u16(c) ==
    CASE c.tag = "IN" -> 1
      [] c.tag = "CS" -> 2
      [] c.tag = "CH" -> 3
      [] c.tag = "HS" -> 4
      [] c.tag = "NONE" -> 254
      [] c.tag = "ANY" -> 255
      [] c.tag = "EdnsPayloadSize" -> c.payload

-----------------------------------------------------------------------------
(* flags.rs *)

Bit(byte, k) == (byte \div (2 ^ k)) % 2 = 1

NullFlags ==
    [qr_bit |-> FALSE, opcode |-> 0, aa_bit |-> FALSE, tc_bit |-> FALSE,
     rd_bit |-> FALSE, ra_bit |-> FALSE, ad_bit |-> FALSE, cd_bit |-> FALSE,
     rcode |-> 0]

DnsFlags_from_bytes_aa_tc_swapped(bytes) ==
    LET z_bit == Bit(bytes[2], 6)
        opcode_val == (bytes[1] \div 8) % 16
        rcode_val == bytes[2] % 16
    IN  IF z_bit THEN [st |-> "err", v |-> NullFlags]
        ELSE IF opcode_val \notin DnsOpcodeValues THEN [st |-> "err", v |-> NullFlags]
        ELSE IF rcode_val \notin DnsRCodeValues THEN [st |-> "err", v |-> NullFlags]
        ELSE [st |-> "ok",
              v |-> [qr_bit |-> Bit(bytes[1], 7), opcode |-> opcode_val,
                     aa_bit |-> Bit(bytes[1], 1), tc_bit |-> Bit(bytes[1], 2),
                     rd_bit |-> Bit(bytes[1], 0), ra_bit |-> Bit(bytes[2], 7),
                     ad_bit |-> Bit(bytes[2], 5), cd_bit |-> Bit(bytes[2], 4),
                     rcode |-> rcode_val]]

DnsFlags_from_bytes_ignores_z(bytes) ==
    LET opcode_val == (bytes[1] \div 8) % 16
        rcode_val == bytes[2] % 16
    IN  IF opcode_val \notin DnsOpcodeValues THEN [st |-> "err", v |-> NullFlags]
        ELSE IF rcode_val \notin DnsRCodeValues THEN [st |-> "err", v |-> NullFlags]
        ELSE [st |-> "ok",
              v |-> [qr_bit |-> Bit(bytes[1], 7), opcode |-> opcode_val,
                     aa_bit |-> Bit(bytes[1], 2), tc_bit |-> Bit(bytes[1], 1),
                     rd_bit |-> Bit(bytes[1], 0), ra_bit |-> Bit(bytes[2], 7),
                     ad_bit |-> Bit(bytes[2], 5), cd_bit |-> Bit(bytes[2], 4),
                     rcode |-> rcode_val]]

DnsFlags_from_bytes(bytes) ==
    LET z_bit == Bit(bytes[2], 6)
        opcode_val == (bytes[1] \div 8) % 16
        rcode_val == bytes[2] % 16
    IN  IF z_bit THEN [st |-> "err", v |-> NullFlags]
        ELSE IF opcode_val \notin DnsOpcodeValues THEN [st |-> "err", v |-> NullFlags]
        ELSE IF rcode_val \notin DnsRCodeValues THEN [st |-> "err", v |-> NullFlags]
        ELSE [st |-> "ok",
              v |-> [qr_bit |-> Bit(bytes[1], 7), opcode |-> opcode_val,
                     aa_bit |-> Bit(bytes[1], 2), tc_bit |-> Bit(bytes[1], 1),
                     rd_bit |-> Bit(bytes[1], 0), ra_bit |-> Bit(bytes[2], 7),
                     ad_bit |-> Bit(bytes[2], 5), cd_bit |-> Bit(bytes[2], 4),
                     rcode |-> rcode_val]]

DnsFlags_to_bytes_ad_in_z(f) ==
    LET B(b, w) == IF b THEN w ELSE 0
    IN  << B(f.qr_bit, 128) + B(f.aa_bit, 4) + B(f.tc_bit, 2) + B(f.rd_bit, 1)
             + (f.opcode % 16) * 8,
           B(f.ra_bit, 128) + B(f.ad_bit, 64) + B(f.cd_bit, 16) + (f.rcode % 16) >>

DnsFlags_to_bytes(f) ==
    LET B(b, w) == IF b THEN w ELSE 0
    IN  << B(f.qr_bit, 128) + B(f.aa_bit, 4) + B(f.tc_bit, 2) + B(f.rd_bit, 1)
             + (f.opcode % 16) * 8,
           B(f.ra_bit, 128) + B(f.ad_bit, 32) + B(f.cd_bit, 16) + (f.rcode % 16) >>

-----------------------------------------------------------------------------
(* question.rs *)

NullQuestion == [qname |-> <<>>, qtype |-> 1, qclass |-> Class("IN")]

\* DnsQuestion::from_bytes as packet.rs calls it (it returns a Result): the
\* name, then qtype and qclass, each of which must be a value of its
\* enumeration; a read past the end of the buffer is a format error.
\* nm is the result of deserialize_name(packet_bytes, pos).
QuestionAfterName(packet_bytes, nm) ==
    LET new_pos == nm.pos
        Fail(st) == [st |-> st, v |-> NullQuestion, pos |-> 0]
    IN  IF nm.st # "ok" THEN Fail(nm.st)
        ELSE IF new_pos + 4 > Len(packet_bytes) THEN Fail("err")
        ELSE LET qtype_num == to_u16(Slice(packet_bytes, new_pos, new_pos + 2))
                 qclass_num == to_u16(Slice(packet_bytes, new_pos + 2, new_pos + 4))
                 qclass == DnsClass_from_u16(qclass_num)
             IN  IF qtype_num \notin DnsRRTypeValues THEN Fail("err")
                 ELSE IF ~qclass.some THEN Fail("err")
                 ELSE [st |-> "ok",
                       v |-> [qname |-> nm.labels, qtype |-> qtype_num, qclass |-> qclass.v],
                       pos |-> new_pos + 4]

DnsQuestion_from_bytes(packet_bytes, pos) ==
    QuestionAfterName(packet_bytes, deserialize_name(packet_bytes, pos))

DnsQuestion_to_bytes(q) ==
    serialize_name(q.qname) \o from_u16(q.qtype) \o from_u16(DnsClass_to_u16(q.qclass))

-----------------------------------------------------------------------------
(* rdata.rs *)

\* A DnsRecordData value.  data is always a sequence of sequences of numbers:
\*   A      << the four octets >>
\*   AAAA   << the eight 16-bit segments >>
\*   NS, CNAME   the name (a sequence of labels)
\*   Other  << the bytes >>
RData(tag, data) == [tag |-> tag, data |-> data]

NullRData == RData("Other", << <<>> >>)

\* the NS and CNAME arms; nm is the result of deserialize_name(packet_bytes, pos)
RDataName(tag, nm, end) ==
    IF nm.st # "ok" THEN [st |-> nm.st, v |-> NullRData, pos |-> 0]
    ELSE [st |-> "ok", v |-> RData(tag, nm.labels), pos |-> end]

DnsRecordData_from_bytes(packet_bytes, pos, rr_type, rd_length) ==
    LET Fail(st) == [st |-> st, v |-> NullRData, pos |-> 0]
        Ok(v) == [st |-> "ok", v |-> v, pos |-> pos + rd_length]
    IN  IF pos + rd_length > Len(packet_bytes) THEN Fail("panic")
        ELSE LET record_bytes == Slice(packet_bytes, pos, pos + rd_length)
             IN  IF rr_type = RRType_A THEN
                     IF Len(record_bytes) < 4 THEN Fail("panic")
                     ELSE Ok(RData("A", << SubSeq(record_bytes, 1, 4) >>))
                 ELSE IF rr_type = RRType_AAAA THEN
                     IF Len(record_bytes) < 16 THEN Fail("panic")
                     ELSE Ok(RData("AAAA",
                            << [i \in 1..8 |-> to_u16(SubSeq(record_bytes, 2 * i - 1, 2 * i))] >>))
                 ELSE IF rr_type = RRType_NS \/ rr_type = RRType_CNAME THEN
                     RDataName(IF rr_type = RRType_NS THEN "NS" ELSE "CNAME",
                               deserialize_name(packet_bytes, pos), pos + rd_length)
                 ELSE Ok(RData("Other", << record_bytes >>))

RECURSIVE SegmentsToOctets(_)
SegmentsToOctets(segs) ==
    IF segs = <<>> THEN <<>> ELSE from_u16(Head(segs)) \o SegmentsToOctets(Tail(segs))

DnsRecordData_to_bytes(r) ==
    CASE r.tag = "A" -> r.data[1]
      [] r.tag = "AAAA" -> SegmentsToOctets(r.data[1])
      [] r.tag = "NS" -> serialize_name(r.data)
      [] r.tag = "CNAME" -> serialize_name(r.data)
      [] r.tag = "Other" -> r.data[1]

-----------------------------------------------------------------------------
(* rr.rs *)

NullRR ==
    [name |-> <<>>, rr_type |-> 1, class |-> Class("IN"), ttl |-> <<0, 0>>,
     rd_length |-> 0, record |-> NullRData]

\* rec is the result of DnsRecordData::from_bytes
RRWithData(name, rrtype_num, class, ttl, rd_length, rec) ==
    IF rec.st # "ok" THEN [st |-> rec.st, v |-> NullRR, pos |-> 0]
    ELSE [st |-> "ok",
          v |-> [name |-> name, rr_type |-> rrtype_num, class |-> class, ttl |-> ttl,
                 rd_length |-> rd_length, record |-> rec.v],
          pos |-> rec.pos]

\* The fixed fields are read by rr.rs; the record data is read by
\* DnsRecordData::from_bytes (rdata.rs), whose variants the resolver matches
\* on.  The record keeps the rd_length read from the wire as a field.
\* nm is the result of deserialize_name(packet_bytes, pos).
RRAfterName_validates_opt_class(packet_bytes, nm) ==
    LET new_pos == nm.pos
        Fail(st) == [st |-> st, v |-> NullRR, pos |-> 0]
    IN  IF nm.st # "ok" THEN Fail(nm.st)
        ELSE IF new_pos + 10 > Len(packet_bytes) THEN Fail("err")
        ELSE LET rrtype_num == to_u16(Slice(packet_bytes, new_pos, new_pos + 2))
                 class_num == to_u16(Slice(packet_bytes, new_pos + 2, new_pos + 4))
                 ttl == to_u32(Slice(packet_bytes, new_pos + 4, new_pos + 8))
                 rd_length == to_u16(Slice(packet_bytes, new_pos + 8, new_pos + 10))
                 pos == new_pos + 10
                 cls == DnsClass_from_u16(class_num)
             IN  IF rrtype_num \notin DnsRRTypeValues THEN Fail("err")
                 ELSE IF ~cls.some THEN Fail("err")
                 ELSE RRWithData(nm.labels, rrtype_num,
                                 IF rrtype_num = RRType_OPT
                                 THEN EdnsPayloadSize(class_num) ELSE cls.v,
                                 ttl, rd_length,
                                 DnsRecordData_from_bytes(packet_bytes, pos, rrtype_num, rd_length))

RRAfterName(packet_bytes, nm) ==
    LET new_pos == nm.pos
        Fail(st) == [st |-> st, v |-> NullRR, pos |-> 0]
    IN  IF nm.st # "ok" THEN Fail(nm.st)
        ELSE IF new_pos + 10 > Len(packet_bytes) THEN Fail("err")
        ELSE LET rrtype_num == to_u16(Slice(packet_bytes, new_pos, new_pos + 2))
                 class_num == to_u16(Slice(packet_bytes, new_pos + 2, new_pos + 4))
                 ttl == to_u32(Slice(packet_bytes, new_pos + 4, new_pos + 8))
                 rd_length == to_u16(Slice(packet_bytes, new_pos + 8, new_pos + 10))
                 pos == new_pos + 10
                 cls == DnsClass_from_u16(class_num)
             IN  IF rrtype_num \notin DnsRRTypeValues THEN Fail("err")
                 ELSE IF rrtype_num # RRType_OPT /\ ~cls.some THEN Fail("err")
                 ELSE RRWithData(nm.labels, rrtype_num,
                                 IF rrtype_num = RRType_OPT
                                 THEN EdnsPayloadSize(class_num) ELSE cls.v,
                                 ttl, rd_length,
                                 DnsRecordData_from_bytes(packet_bytes, pos, rrtype_num, rd_length))

DnsResourceRecord_from_bytes(packet_bytes, pos) ==
    RRAfterName(packet_bytes, deserialize_name(packet_bytes, pos))

\* to_bytes panics when the record data does not fit a u16 length
RecordTooLarge(rr) == Len(DnsRecordData_to_bytes(rr.record)) > 65535

DnsResourceRecord_to_bytes(rr) ==
    LET record == DnsRecordData_to_bytes(rr.record)
        record_length == Len(record)
    IN  serialize_name(rr.name) \o from_u16(rr.rr_type)
          \o from_u16(DnsClass_to_u16(rr.class)) \o from_u32(rr.ttl)
          \o from_u16(record_length) \o record

-----------------------------------------------------------------------------
(* packet.rs *)

NullPacket ==
    [id |-> 0, flags |-> NullFlags, questions |-> <<>>, answers |-> <<>>,
     nameservers |-> <<>>, addl_recs |-> <<>>]

None == [some |-> FALSE, v |-> NullPacket]
Some(p) == [some |-> TRUE, v |-> p]

\* for _ in 0..count { DnsQuestion::from_bytes(&bytes, pos)? ... }
RECURSIVE ReadQuestions(_, _, _, _)
ReadQuestionsNext(bytes, count, acc, q) ==
    IF q.st # "ok" THEN [st |-> q.st, v |-> <<>>, pos |-> 0]
    ELSE ReadQuestions(bytes, q.pos, count - 1, Append(acc, q.v))

ReadQuestions(bytes, pos, count, acc) ==
    IF count = 0 THEN [st |-> "ok", v |-> acc, pos |-> pos]
    ELSE ReadQuestionsNext(bytes, count, acc, DnsQuestion_from_bytes(bytes, pos))

\* for _ in 0..count { DnsResourceRecord::from_bytes(&bytes, pos)? ... }
RECURSIVE ReadRecords(_, _, _, _)
ReadRecordsNext(bytes, count, acc, rr) ==
    IF rr.st # "ok" THEN [st |-> rr.st, v |-> <<>>, pos |-> 0]
    ELSE ReadRecords(bytes, rr.pos, count - 1, Append(acc, rr.v))

ReadRecords(bytes, pos, count, acc) ==
    IF count = 0 THEN [st |-> "ok", v |-> acc, pos |-> pos]
    ELSE ReadRecordsNext(bytes, count, acc, DnsResourceRecord_from_bytes(bytes, pos))

\* The three record loops read an_count, then ns_count, then ar_count records
\* one after the other with the same call; rrs is what they read together.
PacketWithRecords(id, flags, questions, an_count, ns_count, rrs) ==
    IF rrs.st # "ok" THEN [st |-> rrs.st, v |-> NullPacket, partial |-> None]
    ELSE [st |-> "ok",
          v |-> [id |-> id, flags |-> flags, questions |-> questions,
                 answers |-> SubSeq(rrs.v, 1, an_count),
                 nameservers |-> SubSeq(rrs.v, an_count + 1, an_count + ns_count),
                 addl_recs |-> SubSeq(rrs.v, an_count + ns_count + 1, Len(rrs.v))],
          partial |-> None]

PacketAfterQuestions(bytes, id, flags, an_count, ns_count, ar_count, qs) ==
    IF qs.st # "ok" THEN [st |-> qs.st, v |-> NullPacket, partial |-> None]
    ELSE PacketWithRecords(id, flags, qs.v, an_count, ns_count,
                           ReadRecords(bytes, qs.pos, an_count + ns_count + ar_count, <<>>))

PacketAfterFlags(bytes, id, flags) ==
    LET Fail(st) == [st |-> st, v |-> NullPacket, partial |-> None]
    IN  IF flags.st # "ok" THEN Fail(flags.st)
        ELSE IF Len(bytes) < 12 THEN Fail("panic")
        ELSE PacketAfterQuestions(bytes, id, flags.v,
                                  to_u16(Slice(bytes, 6, 8)), to_u16(Slice(bytes, 8, 10)),
                                  to_u16(Slice(bytes, 10, 12)),
                                  ReadQuestions(bytes, 12, to_u16(Slice(bytes, 4, 6)), <<>>))

\* The error of a failed decode never has set_partial called on it: its
\* partial packet is the None of make_error.  A slice of a buffer that is too
\* short panics.
DnsPacket_from_bytes(bytes) ==
    IF Len(bytes) < 4 THEN [st |-> "panic", v |-> NullPacket, partial |-> None]
    ELSE PacketAfterFlags(bytes, to_u16(Slice(bytes, 0, 2)),
                          DnsFlags_from_bytes(Slice(bytes, 2, 4)))

RECURSIVE QuestionsToBytes(_)
QuestionsToBytes(qs) ==
    IF qs = <<>> THEN <<>> ELSE DnsQuestion_to_bytes(Head(qs)) \o QuestionsToBytes(Tail(qs))

RECURSIVE RecordsToBytes(_)
RecordsToBytes(rrs) ==
    IF rrs = <<>> THEN <<>> ELSE DnsResourceRecord_to_bytes(Head(rrs)) \o RecordsToBytes(Tail(rrs))

DnsPacket_to_bytes_counts_swapped(p) ==
    from_u16(p.id) \o DnsFlags_to_bytes(p.flags)
      \o from_u16(Len(p.questions) % 65536) \o from_u16(Len(p.nameservers) % 65536)
      \o from_u16(Len(p.answers) % 65536) \o from_u16(Len(p.addl_recs) % 65536)
      \o QuestionsToBytes(p.questions) \o RecordsToBytes(p.answers)
      \o RecordsToBytes(p.nameservers) \o RecordsToBytes(p.addl_recs)

DnsPacket_to_bytes(p) ==
    from_u16(p.id) \o DnsFlags_to_bytes(p.flags)
      \o from_u16(Len(p.questions) % 65536) \o from_u16(Len(p.answers) % 65536)
      \o from_u16(Len(p.nameservers) % 65536) \o from_u16(Len(p.addl_recs) % 65536)
      \o QuestionsToBytes(p.questions) \o RecordsToBytes(p.answers)
      \o RecordsToBytes(p.nameservers) \o RecordsToBytes(p.addl_recs)

\* to_bytes panics when a record's data is longer than 65,535 bytes
DnsPacket_to_bytes_panics(p) ==
    \E i \in 1..Len(p.answers \o p.nameservers \o p.addl_recs) :
        RecordTooLarge((p.answers \o p.nameservers \o p.addl_recs)[i])

-----------------------------------------------------------------------------
(* errors.rs *)

make_error == [partial |-> None]

set_partial(e, p) == [e EXCEPT !.partial = Some(p)]

get_error_response_keeps_bits(e) ==
    IF e.partial.some
    THEN Some([e.partial.v EXCEPT !.flags.qr_bit = TRUE, !.flags.rcode = RCode_FormError,
                                  !.questions = <<>>, !.answers = <<>>,
                                  !.nameservers = <<>>, !.addl_recs = <<>>])
    ELSE None

get_error_response(e) ==
    IF e.partial.some
    THEN LET p == e.partial.v
         IN  Some([id |-> p.id,
                   flags |-> [p.flags EXCEPT !.qr_bit = TRUE, !.aa_bit = FALSE,
                                             !.tc_bit = FALSE, !.ra_bit = FALSE,
                                             !.ad_bit = FALSE, !.rcode = RCode_FormError],
                   questions |-> <<>>, answers |-> <<>>,
                   nameservers |-> <<>>, addl_recs |-> <<>>])
    ELSE None

-----------------------------------------------------------------------------
(* recursive/root.rs, recursive/mod.rs: the resolver *)

\* an IPv4 address is the sequence of its four octets
get_root_nameserver == << 192, 203, 230, 10 >>

QueryId == 42

QueryPacket_recursion_desired(question) ==
    [id |-> QueryId,
     flags |-> [qr_bit |-> FALSE, opcode |-> Opcode_Query, aa_bit |-> FALSE,
                tc_bit |-> FALSE, rd_bit |-> TRUE, ra_bit |-> FALSE,
                ad_bit |-> FALSE, cd_bit |-> FALSE, rcode |-> RCode_NoError],
     questions |-> << question >>, answers |-> <<>>, nameservers |-> <<>>,
     addl_recs |-> <<>>]

\* the packet query_nameserver builds for a question
QueryPacket(question) ==
    [id |-> QueryId,
     flags |-> [qr_bit |-> FALSE, opcode |-> Opcode_Query, aa_bit |-> FALSE,
                tc_bit |-> FALSE, rd_bit |-> FALSE, ra_bit |-> FALSE,
                ad_bit |-> FALSE, cd_bit |-> FALSE, rcode |-> RCode_NoError],
     questions |-> << question >>, answers |-> <<>>, nameservers |-> <<>>,
     addl_recs |-> <<>>]

RcodeOutcome_errors_returned(response) ==
    IF response.flags.rcode # RCode_NoError THEN "return" ELSE "go"

RcodeOutcome_nxdomain_fails(response) ==
    IF response.flags.rcode # RCode_NoError THEN "err" ELSE "go"

\* the check of the response's rcode in resolve_question:
\*   "return"   NXDomain: the call returns Ok(response)
\*   "err"      another nonzero rcode: the call returns Err
\*   "go"       NoError: the call goes on to the answers
RcodeOutcome(response) ==
    IF response.flags.rcode # RCode_NoError
    THEN IF response.flags.rcode = RCode_NXDomain THEN "return" ELSE "err"
    ELSE "go"

\* the position of the first NS record of the authority section, 0 when
\* there is none
FirstNS(nameservers) ==
    LET S == { i \in 1..Len(nameservers) : nameservers[i].rr_type = RRType_NS }
    IN  IF S = {} THEN 0 ELSE CHOOSE i \in S : \A j \in S : i <= j

NoAddress == [st |-> "ok", some |-> FALSE, ip |-> <<>>]

find_glue_record_for_ns_any_name(ns, records) ==
    IF ns.record.tag # "NS" THEN [st |-> "panic", some |-> FALSE, ip |-> <<>>]
    ELSE LET S == { i \in 1..Len(records) : records[i].record.tag = "A" }
         IN  IF S = {} THEN NoAddress
             ELSE [st |-> "ok", some |-> TRUE,
                   ip |-> records[CHOOSE i \in S : \A j \in S : i <= j].record.data[1]]

\* the first record named like the NS target whose data is an A address
find_glue_record_for_ns(ns, records) ==
    IF ns.record.tag # "NS" THEN [st |-> "panic", some |-> FALSE, ip |-> <<>>]
    ELSE LET S == { i \in 1..Len(records) :
                      records[i].name = ns.record.data /\ records[i].record.tag = "A" }
         IN  IF S = {} THEN NoAddress
             ELSE [st |-> "ok", some |-> TRUE,
                   ip |-> records[CHOOSE i \in S : \A j \in S : i <= j].record.data[1]]

\* the question get_nameserver_address asks for an NS record's target
NameserverQuestion(ns) ==
    [qname |-> ns.record.data, qtype |-> RRType_A, qclass |-> Class("IN")]

\* the loop of get_nameserver_address over the result's answers: the first
\* answer of type A whose data is an A address
FirstAddress(answers) ==
    LET S == { i \in 1..Len(answers) :
                 answers[i].rr_type = RRType_A /\ answers[i].record.tag = "A" }
    IN  IF S = {} THEN NoAddress
        ELSE [st |-> "ok", some |-> TRUE,
              ip |-> answers[CHOOSE i \in S : \A j \in S : i <= j].record.data[1]]

\* handle_answers up to its nested resolve_question call:
\*   "chase"   the only answer is a CNAME: resolve `question` next
\*   "panic"   it is, and the response has no question (questions[0])
\*   "return"  any other shape: Ok(response)
handle_answers(response) ==
    IF Len(response.answers) = 1 /\ response.answers[1].record.tag = "CNAME"
    THEN IF response.questions = <<>>
         THEN [kind |-> "panic", question |-> NullQuestion]
         ELSE [kind |-> "chase",
               question |-> [qname |-> response.answers[1].record.data,
                             qtype |-> response.questions[1].qtype,
                             qclass |-> response.questions[1].qclass]]
    ELSE [kind |-> "return", question |-> NullQuestion]

\* handle_answers after the nested call returned Ok(reply)
MergeReply_takes_reply_flags(response, reply) ==
    [response EXCEPT !.flags = reply.flags,
                     !.answers = @ \o reply.answers,
                     !.nameservers = @ \o reply.nameservers,
                     !.addl_recs = @ \o reply.addl_recs]

MergeReply(response, reply) ==
    [response EXCEPT !.answers = @ \o reply.answers,
                     !.nameservers = @ \o reply.nameservers,
                     !.addl_recs = @ \o reply.addl_recs]

\* A resolve_question call in progress: its question, the nameserver it asks
\* next, and where it is:
\*   "run"     in its loop, about to call query_nameserver
\*   "cname"   in handle_answers(response), inside the nested call
\*   "ns"      in get_nameserver_address, inside the nested call
Frame(question, ns, wait, resp) ==
    [question |-> question, ns |-> ns, wait |-> wait, response |-> resp]

\* resolve_question(question) is entered: it starts at the root nameserver
Call(callers, question) ==
    Append(callers, Frame(question, get_root_nameserver, "run", NullPacket))

NoReply == [some |-> FALSE, v |-> NullPacket, depth |-> 0]
NoResult == [st |-> "none", v |-> NullPacket]

\* What a step of the worker leaves behind
Worker(pcv, pkt, stk, r, resp, reply, cret) ==
    [pc |-> pcv, packet |-> pkt, stack |-> stk, ret |-> r, results |-> resp,
     last_reply |-> reply, call_ret |-> cret]

\* The worker ends without a result: "failed" (resolve_query returned Err),
\* "panicked" (the worker thread unwound), "aborted" (the stack overflowed,
\* which ends the process).
Ended(how, req) == Worker(how, req, <<>>, NoResult, None, NoReply, None)

\* The same from inside resolve_question: an Err reaches resolve_query
\* through the ? of every call in progress.
ResolverEnded(how, req) == [Ended(how, req) EXCEPT !.ret = [st |-> how, v |-> NullPacket]]

\* The innermost call returned Ok(v) to the calls in progress `callers`.
RECURSIVE Return(_, _, _)
Return(callers, v, req) ==
    IF callers = <<>>
    THEN Worker("resolved", req, <<>>, [st |-> "ok", v |-> v], None, NoReply, None)
    ELSE LET f == callers[Len(callers)]
             rest == SubSeq(callers, 1, Len(callers) - 1)
             a == FirstAddress(v.answers)
         IN  IF f.wait = "cname" THEN Return(rest, MergeReply(f.response, v), req)
             ELSE IF a.some
             THEN Worker("resolving", req, Append(rest, [f EXCEPT !.ns = a.ip, !.wait = "run"]),
                         NoResult, None, NoReply, None)
             ELSE ResolverEnded("failed", req)

Running(stk, req) == Worker("resolving", req, stk, NoResult, None, NoReply, None)

\* The body of resolve_question's loop after query_nameserver returned
\* Ok(reply), for the innermost call of stk.
AfterReply(stk, reply, req) ==
    LET n == Len(stk)
        top == stk[n]
        callers == SubSeq(stk, 1, n - 1)
        oc == RcodeOutcome(reply)
        h == handle_answers(reply)
        i == FirstNS(reply.nameservers)
        g == find_glue_record_for_ns(reply.nameservers[i], reply.addl_recs)
    IN  IF oc = "return" THEN [Return(callers, reply, req) EXCEPT !.call_ret = Some(reply)]
        ELSE IF oc = "err" THEN ResolverEnded("failed", req)
        ELSE IF Len(reply.answers) > 0 THEN
            IF h.kind = "return"
            THEN [Return(callers, reply, req) EXCEPT !.call_ret = Some(reply)]
            ELSE IF h.kind = "panic" THEN ResolverEnded("panicked", req)
            ELSE Running(Call(Append(callers, [top EXCEPT !.wait = "cname", !.response = reply]),
                              h.question), req)
        ELSE IF i = 0 THEN ResolverEnded("failed", req)
        ELSE IF g.st = "panic" THEN ResolverEnded("panicked", req)
        ELSE IF g.some THEN Running(Append(callers, [top EXCEPT !.ns = g.ip]), req)
        ELSE Running(Call(Append(callers, [top EXCEPT !.wait = "ns"]),
                          NameserverQuestion(reply.nameservers[i])), req)

\* query_nameserver after its recv: r is DnsPacket::from_bytes of the reply
AfterDecode(stk, r, req) ==
    IF r.st = "overflow" THEN ResolverEnded("aborted", req)
    ELSE IF r.st = "panic" THEN ResolverEnded("panicked", req)
    ELSE IF r.st = "err" THEN ResolverEnded("failed", req)
    ELSE [AfterReply(stk, r.v, req) EXCEPT
             !.last_reply = [some |-> TRUE, v |-> r.v, depth |-> Len(stk)]]

-----------------------------------------------------------------------------
(* main.rs: the server *)

ExactlyOneQuestion_or_more(p) == Len(p.questions) >= 1

\* packet.questions.len() != 1 is refused
ExactlyOneQuestion(p) == Len(p.questions) = 1

FixupResult_keeps_id(res, request) == [res EXCEPT !.flags.ra_bit = TRUE]

\* results.id = packet.id; results.flags.ra_bit = true
FixupResult(res, request) ==
    [res EXCEPT !.id = request.id, !.flags.ra_bit = TRUE]

\* resolve_query after resolve_question returned
ResolveQueryEnd(w) ==
    IF w.pc = "resolved"
    THEN [w EXCEPT !.pc = "responding",
                   !.results = Some(FixupResult(w.ret.v, w.packet.v))]
    ELSE w

\* resolve_query up to its call of resolve_question; r is
\* DnsPacket::from_bytes of the datagram
ResolveQueryStart(r) ==
    LET e == get_error_response([partial |-> r.partial])
    IN  IF r.st = "overflow" THEN Ended("aborted", None)
        ELSE IF r.st = "panic" THEN Ended("panicked", None)
        ELSE IF r.st = "err" THEN
            IF e.some
            THEN Worker("responding", None, <<>>, NoResult, e, NoReply, None)
            ELSE Ended("failed", None)
        ELSE IF ~ExactlyOneQuestion(r.v) THEN Ended("failed", Some(r.v))
        ELSE Running(Call(<<>>, r.v.questions[1]), Some(r.v))

-----------------------------------------------------------------------------
(* The values each specification leaves alone *)

NameIdle == nm_bytes = <<>> /\ nm_start = 0 /\ nm_state = NameEnd(NameInit(0), "idle")

ServerIdle ==
    /\ pc = "idle"
    /\ dgram = [src |-> "none", bytes |-> <<>>]
    /\ packet = None
    /\ stack = <<>>
    /\ ret = [st |-> "none", v |-> NullPacket]
    /\ results = None
    /\ sent = [some |-> FALSE, ns |-> <<>>, bytes |-> <<>>]
    /\ last_reply = [some |-> FALSE, v |-> NullPacket, depth |-> 0]
    /\ call_ret = None
    /\ out = <<>>

CodecIdle == cd_in = NullPacket /\ cd_bytes = <<>> /\ cd_out = [st |-> "idle", v |-> NullPacket]

ErrIdle == er_in = make_error /\ er_out = [done |-> FALSE, r |-> None]

FlagsIdle ==
    /\ fl_in = [kind |-> "none", word |-> <<0, 0>>, flags |-> NullFlags]
    /\ fl_out = [st |-> "idle", flags |-> NullFlags, bytes |-> <<>>]

RecordIdle ==
    /\ rr_in = <<>>
    /\ rr_out = [st |-> "idle", v |-> NullRR, pos |-> 0, bytes |-> <<>>]

IntIdle ==
    /\ int_in = [width |-> 0, v |-> <<0, 0>>, rest |-> <<>>]
    /\ int_out = [done |-> FALSE, bytes |-> <<>>, v |-> <<0, 0>>]

FieldIdle == FlagsIdle /\ RecordIdle /\ IntIdle

\* a worker main has not spawned yet
NoWorker ==
    [dgram |-> [src |-> "none", bytes |-> <<>>],
     w |-> Worker("idle", None, <<>>, NoResult, None, NoReply, None)]

PoolIdle ==
    /\ process = "running"
    /\ accepted = 0
    /\ pool = [i \in 1..MaxAccepted |-> NoWorker]
    /\ emitted = <<>>

-----------------------------------------------------------------------------
(* SpecName: deserialize_name run one loop iteration at a time: on every    *)
(* buffer of at most MaxBufLen bytes over NameBytes from every start, on    *)
(* the example of RFC 1035 from the starts of its names, and on the         *)
(* serialization of drawn names from their first byte.                      *)

\* 0: the root label; 1, 2: label lengths and pointer targets; 64: a length
\* octet of the reserved kind 01; 97: 'a'; 192: a pointer with high offset
\* bits 0, and, inside a label, a byte that is not UTF-8
NameBytes == {0, 1, 2, 64, 97, 192}

RECURSIVE BuffersOfLen(_)
BuffersOfLen(n) ==
    IF n = 0 THEN { <<>> }
    ELSE { Append(b, x) : b \in BuffersOfLen(n - 1), x \in NameBytes }

NameBuffers == UNION { BuffersOfLen(n) : n \in 0..MaxBufLen }

Zeros(n) == [i \in 1..n |-> 0]

\* The packet of the test name_read_works: f.isi.arpa at 20, foo and a
\* pointer to 20 at 40, a pointer to 26 at 64, the root at 92
RfcExample ==
    Zeros(20) \o << 1, 102, 3, 105, 115, 105, 4, 97, 114, 112, 97, 0 >>
      \o Zeros(8) \o << 3, 102, 111, 111, 192, 20 >>
      \o Zeros(18) \o << 192, 26 >>
      \o Zeros(26) \o << 0 >>

RfcStarts == { 20, 40, 64, 92 }

\* Names (Vec<String>: every label is UTF-8): no label, short labels, a
\* two-byte character, labels of 63 bytes
RoundTripNames ==
    { <<>>, << <<97>> >>, << <<97>>, <<98, 99>> >>, << <<195, 169>>, <<97>> >>,
      << <<119, 119, 119>>, <<101, 120, 97, 109, 112, 108, 101>>, <<99, 111, 109>> >>,
      << [i \in 1..63 |-> 97] >>,
      << [i \in 1..63 |-> 98], <<97>>, [i \in 1..63 |-> 97] >> }

NameSpecInit ==
    /\ \/ nm_bytes \in NameBuffers /\ nm_start \in 0..Len(nm_bytes)
       \/ nm_bytes = RfcExample /\ nm_start \in RfcStarts
       \/ nm_bytes \in { serialize_name(n) : n \in RoundTripNames } /\ nm_start = 0
    /\ nm_state = NameInit(nm_start)
    /\ ServerIdle /\ PoolIdle /\ CodecIdle /\ ErrIdle /\ FieldIdle

NameDecodeStep ==
    /\ nm_state.st = "run"
    /\ nm_state' = NameStep(nm_bytes, nm_state)
    /\ UNCHANGED <<nm_bytes, nm_start, serverVars, codecVars, errVars, fieldVars, poolVars>>

NameNext == NameDecodeStep

SpecName == NameSpecInit /\ [][NameNext]_vars

-----------------------------------------------------------------------------
(* SpecErr: get_error_response applied to drawn format errors *)

Flag(qr, opcode, aa, tc, rd, ra, ad, cd, rcode) ==
    [qr_bit |-> qr, opcode |-> opcode, aa_bit |-> aa, tc_bit |-> tc,
     rd_bit |-> rd, ra_bit |-> ra, ad_bit |-> ad, cd_bit |-> cd, rcode |-> rcode]

Label_a == << 97 >>
Label_b == << 98 >>
Label_n == << 110 >>
Name_a == << Label_a >>
Name_b == << Label_b >>
Name_n == << Label_n >>

Ip1 == << 10, 0, 0, 1 >>
Ip2 == << 10, 0, 0, 2 >>

Question(qname, qtype) == [qname |-> qname, qtype |-> qtype, qclass |-> Class("IN")]

\* A record as the decoder produces it: rd_length is the length of its data on
\* the wire
RR(name, rr_type, class, rd_length, record) ==
    [name |-> name, rr_type |-> rr_type, class |-> class, ttl |-> <<0, 300>>,
     rd_length |-> rd_length, record |-> record]

RR_A(name, ip) == RR(name, RRType_A, Class("IN"), 4, RData("A", << ip >>))
RR_AAAA(name) ==
    RR(name, RRType_AAAA, Class("IN"), 16, RData("AAAA", << <<8193, 3512, 0, 0, 0, 0, 0, 65535>> >>))
RR_NS(name, target) ==
    RR(name, RRType_NS, Class("IN"), Len(serialize_name(target)), RData("NS", target))
RR_CNAME(name, target) ==
    RR(name, RRType_CNAME, Class("IN"), Len(serialize_name(target)), RData("CNAME", target))
RR_SOA(name) == RR(name, RRType_SOA, Class("IN"), 2, RData("Other", << <<0, 0>> >>))
RR_OPT == RR(<<>>, RRType_OPT, EdnsPayloadSize(4096), 0, RData("Other", << <<>> >>))

Packet(id, flags, questions, answers, nameservers, addl_recs) ==
    [id |-> id, flags |-> flags, questions |-> questions, answers |-> answers,
     nameservers |-> nameservers, addl_recs |-> addl_recs]

ErrFlags ==
    { Flag(qr, opcode, aa, tc, rd, ra, ad, cd, rcode) :
        qr \in BOOLEAN, opcode \in {0, 2}, aa \in BOOLEAN, tc \in BOOLEAN,
        rd \in BOOLEAN, ra \in BOOLEAN, ad \in BOOLEAN, cd \in BOOLEAN,
        rcode \in {0, 3} }

ErrPartials ==
    { Packet(id, f, qs, an, <<>>, ar) :
        id \in {42, 65535}, f \in ErrFlags,
        qs \in { <<>>, << Question(Name_a, RRType_A) >> },
        an \in { <<>>, << RR_A(Name_a, Ip1) >> },
        ar \in { <<>>, << RR_OPT >> } }

ErrInputs == { make_error } \cup { set_partial(make_error, p) : p \in ErrPartials }

ErrSpecInit ==
    /\ er_in \in ErrInputs
    /\ er_out = [done |-> FALSE, r |-> None]
    /\ NameIdle /\ ServerIdle /\ PoolIdle /\ CodecIdle /\ FieldIdle

ErrApply ==
    /\ ~er_out.done
    /\ er_out' = [done |-> TRUE, r |-> get_error_response(er_in)]
    /\ UNCHANGED <<er_in, nameVars, serverVars, codecVars, fieldVars, poolVars>>

ErrNext == ErrApply

SpecErr == ErrSpecInit /\ [][ErrNext]_vars

-----------------------------------------------------------------------------
(* SpecCodec: DnsPacket::to_bytes, then DnsPacket::from_bytes, on drawn      *)
(* well-formed packets.                                                     *)

\* An NS record as the decoder leaves it when its target was a two-byte
\* compression pointer on the wire: rd_length is 2, the target is expanded.
RR_NS_compressed(name, target) == [RR_NS(name, target) EXCEPT !.rd_length = 2]

\* a label of 64 bytes, one more than a length octet can announce
Label_64 == [i \in 1..64 |-> 97]

CodecRecords ==
    { RR_A(Name_a, Ip1), RR_AAAA(Name_b), RR_NS(Name_a, Name_n),
      RR_CNAME(Name_a, << Label_b, Label_a >>), RR_SOA(Name_a), RR_OPT,
      RR_NS_compressed(Name_b, << Label_n, Label_b >>) }

CodecFlags ==
    { Flag(FALSE, 0, FALSE, FALSE, TRUE, FALSE, TRUE, FALSE, 0),
      Flag(TRUE, 5, TRUE, FALSE, FALSE, FALSE, TRUE, FALSE, 3),
      Flag(TRUE, 0, FALSE, TRUE, TRUE, TRUE, FALSE, TRUE, 11) }

CodecPackets ==
    { Packet(id, f, qs, an, ns, ar) :
        id \in {42, 65535}, f \in CodecFlags,
        qs \in { <<>>, << Question(Name_a, RRType_A) >>,
                 << Question(<<>>, RRType_TXT), Question(<< Label_b, Label_a >>, RRType_AAAA) >>,
                 << Question(<< Label_64, Label_a >>, RRType_A) >> },
        an \in { <<>> } \cup { << r >> : r \in CodecRecords }
                 \cup { << RR_CNAME(Name_a, Name_b), RR_A(Name_b, Ip1) >> },
        ns \in { <<>>, << RR_NS(Name_a, Name_n) >> },
        ar \in { <<>>, << RR_OPT >> } }

CodecSpecInit ==
    /\ cd_in \in CodecPackets
    /\ cd_bytes = <<>>
    /\ cd_out = [st |-> "idle", v |-> NullPacket]
    /\ NameIdle /\ ServerIdle /\ PoolIdle /\ ErrIdle /\ FieldIdle

CodecEncode ==
    /\ cd_out.st = "idle"
    /\ ~DnsPacket_to_bytes_panics(cd_in)
    /\ cd_bytes' = DnsPacket_to_bytes(cd_in)
    /\ cd_out' = [cd_out EXCEPT !.st = "encoded"]
    /\ UNCHANGED <<cd_in, nameVars, serverVars, errVars, fieldVars, poolVars>>

CodecDecode ==
    /\ cd_out.st = "encoded"
    /\ LET r == DnsPacket_from_bytes(cd_bytes)
       IN  cd_out' = [st |-> r.st, v |-> r.v]
    /\ UNCHANGED <<cd_in, cd_bytes, nameVars, serverVars, errVars, fieldVars, poolVars>>

CodecNext == CodecEncode \/ CodecDecode

SpecCodec == CodecSpecInit /\ [][CodecNext]_vars

-----------------------------------------------------------------------------
(* Spec: the server accepting datagrams and one worker resolving, against   *)
(* upstream nameservers that may answer anything.                           *)

Clients == { "c1", "c2" }

ClientQuery(id, questions) ==
    Packet(id, Flag(FALSE, Opcode_Query, FALSE, FALSE, TRUE, FALSE, FALSE, FALSE, RCode_NoError),
           questions, <<>>, <<>>, <<>>)

\* one question, for a A IN, id 0x1234
Req_one == DnsPacket_to_bytes(ClientQuery(4660, << Question(Name_a, RRType_A) >>))
\* no question
Req_none == DnsPacket_to_bytes(ClientQuery(4661, <<>>))
\* two questions
Req_two ==
    DnsPacket_to_bytes(ClientQuery(4662, << Question(Name_a, RRType_A), Question(Name_b, RRType_A) >>))
\* a full header (id 0x002A, opcode Status, RD, AD) announcing one question,
\* then the root name and nothing else
Req_cut_question == << 0, 42, 17, 32, 0, 1, 0, 0, 0, 0, 0, 0, 0 >>
\* the same header announcing one answer, then the root name and nothing else
Req_cut_record == << 0, 42, 17, 32, 0, 0, 0, 1, 0, 0, 0, 0, 0 >>
\* a full header with the Z bit set
Req_z_bit == << 0, 42, 1, 64, 0, 0, 0, 0, 0, 0, 0, 0 >>
\* one question whose name is a pointer to itself
Req_self_pointer == << 0, 42, 1, 0, 0, 1, 0, 0, 0, 0, 0, 0, 192, 12, 0, 1, 0, 1 >>
\* buffers shorter than a header: empty, 3 bytes, 5 bytes with the Z bit set,
\* 5 bytes with valid flags, 11 bytes
ShortRequests ==
    { <<>>, << 0, 42, 1 >>, << 0, 42, 1, 64, 0 >>, << 0, 42, 1, 0, 0 >>,
      << 0, 42, 1, 0, 0, 1, 0, 0, 0, 0, 0 >> }

RequestBytes ==
    { Req_one, Req_none, Req_two, Req_cut_question, Req_cut_record, Req_z_bit,
      Req_self_pointer } \cup ShortRequests

RequestDatagrams == { [src |-> c, bytes |-> b] : c \in Clients, b \in RequestBytes }

Reply(id, rcode, questions, answers, nameservers, addl_recs) ==
    Packet(id, Flag(TRUE, Opcode_Query, TRUE, FALSE, FALSE, FALSE, FALSE, FALSE, rcode),
           questions, answers, nameservers, addl_recs)

Q_a == << Question(Name_a, RRType_A) >>

\* What a queried nameserver may send back
UpstreamPackets ==
    { \* NXDomain, with a referral and its glue in the other sections
      Reply(QueryId, RCode_NXDomain, Q_a, <<>>,
            << RR_SOA(Name_a), RR_NS(Name_a, Name_n) >>, << RR_A(Name_n, Ip1) >>),
      \* another error
      Reply(QueryId, RCode_ServFail, Q_a, <<>>, <<>>, <<>>),
      \* an address; the same with another id and no question
      Reply(QueryId, RCode_NoError, Q_a, << RR_A(Name_a, Ip2) >>, <<>>, <<>>),
      Reply(7, RCode_NoError, <<>>, << RR_A(Name_b, Ip1) >>, << RR_NS(Name_b, Name_n) >>,
            << RR_OPT >>),
      \* a single CNAME: with the question echoed, with no question, with
      \* another question
      Reply(QueryId, RCode_NoError, Q_a, << RR_CNAME(Name_a, Name_b) >>, <<>>, <<>>),
      Reply(QueryId, RCode_NoError, <<>>, << RR_CNAME(Name_a, Name_b) >>, <<>>, <<>>),
      Reply(QueryId, RCode_NoError, << Question(Name_b, RRType_AAAA) >>,
            << RR_CNAME(Name_a, Name_n) >>, <<>>, <<>>),
      \* a CNAME and the address of its target
      Reply(QueryId, RCode_NoError, Q_a,
            << RR_CNAME(Name_a, Name_b), RR_A(Name_b, Ip1) >>, <<>>, <<>>),
      \* an address of the other family only
      Reply(QueryId, RCode_NoError, Q_a, << RR_AAAA(Name_a) >>, <<>>, <<>>),
      \* a referral with glue; one whose glue comes after an SOA, after the
      \* address of another name and after an AAAA of the target; one without
      Reply(QueryId, RCode_NoError, Q_a, <<>>, << RR_NS(Name_a, Name_n) >>,
            << RR_A(Name_n, Ip1) >>),
      Reply(QueryId, RCode_NoError, Q_a, <<>>, << RR_SOA(Name_a), RR_NS(Name_a, Name_n) >>,
            << RR_A(Name_b, Ip1), RR_AAAA(Name_n), RR_A(Name_n, Ip2) >>),
      Reply(QueryId, RCode_NoError, Q_a, <<>>, << RR_NS(Name_a, Name_n) >>, <<>>),
      \* neither an answer nor a nameserver
      Reply(QueryId, RCode_NoError, Q_a, <<>>, << RR_SOA(Name_a) >>, <<>>),
      Reply(QueryId, RCode_NoError, Q_a, <<>>, <<>>, <<>>) }

\* the bytes a nameserver may send back: the packets above, a header with the
\* Z bit set, a single byte; and the exchange may fail
UpstreamOutcomes ==
    { [io |-> "ok", bytes |-> DnsPacket_to_bytes(p)] : p \in UpstreamPackets }
      \cup { [io |-> "ok", bytes |-> Req_z_bit], [io |-> "ok", bytes |-> << 0 >>],
             [io |-> "err", bytes |-> <<>>] }

Init == ServerIdle /\ PoolIdle /\ NameIdle /\ CodecIdle /\ ErrIdle /\ FieldIdle

WorkerEnded == pc \in { "replied", "failed", "panicked", "send_failed" }

SetWorker(w) ==
    /\ pc' = w.pc
    /\ packet' = w.packet
    /\ stack' = w.stack
    /\ ret' = w.ret
    /\ results' = w.results
    /\ last_reply' = w.last_reply
    /\ call_ret' = w.call_ret

\* main's loop: receive returns a datagram and a worker is spawned for it.
\* The model follows one worker at a time.
Receive(d) ==
    /\ pc = "idle" \/ WorkerEnded
    /\ dgram' = d
    /\ SetWorker(Worker("spawned", None, <<>>, NoResult, None, NoReply, None))
    /\ sent' = [some |-> FALSE, ns |-> <<>>, bytes |-> <<>>]
    /\ out' = <<>>
    /\ UNCHANGED <<nameVars, codecVars, errVars, fieldVars, poolVars>>

\* The worker runs resolve_query up to the first upstream query.
Serve ==
    /\ pc = "spawned"
    /\ SetWorker(ResolveQueryEnd(ResolveQueryStart(DnsPacket_from_bytes(dgram.bytes))))
    /\ UNCHANGED <<dgram, sent, out, nameVars, codecVars, errVars, fieldVars, poolVars>>

\* query_nameserver sends the innermost call's question to its nameserver
\* and receives o; the worker runs on to the next query or to the end of
\* resolve_query.
ExchangeResult(stk, req, o) ==
    IF o.io = "err" THEN ResolverEnded("failed", req)
    ELSE ResolveQueryEnd(AfterDecode(stk, DnsPacket_from_bytes(o.bytes), req))

Exchange(o) ==
    /\ pc = "resolving"
    /\ sent' = [some |-> TRUE, ns |-> stack[Len(stack)].ns,
                bytes |-> DnsPacket_to_bytes(QueryPacket(stack[Len(stack)].question))]
    /\ SetWorker(ExchangeResult(stack, packet, o))
    /\ Len(stack') <= MaxNest
    /\ UNCHANGED <<dgram, out, nameVars, codecVars, errVars, fieldVars, poolVars>>

\* respond: the packet is encoded and sent to the datagram's source; the
\* worker unwraps the result of the send.
Respond(send_ok) ==
    /\ pc = "responding"
    /\ IF DnsPacket_to_bytes_panics(results.v) THEN pc' = "panicked" /\ out' = out
       ELSE IF send_ok
       THEN /\ out' = Append(out, [dest |-> dgram.src, bytes |-> DnsPacket_to_bytes(results.v)])
            /\ pc' = "replied"
       ELSE pc' = "send_failed" /\ out' = out
    /\ UNCHANGED <<dgram, packet, stack, ret, results, sent, last_reply, call_ret,
                   nameVars, codecVars, errVars, fieldVars, poolVars>>

Next ==
    \/ \E d \in RequestDatagrams : Receive(d)
    \/ Serve
    \/ \E o \in UpstreamOutcomes : Exchange(o)
    \/ \E send_ok \in BOOLEAN : Respond(send_ok)

Spec == Init /\ [][Next]_vars

-----------------------------------------------------------------------------
(* SpecPool: main's loop spawning one thread per datagram, the threads      *)
(* running side by side and sharing the socket.                             *)

PoolRequests ==
    { Req_one, Req_two, Req_z_bit, Req_self_pointer, << 0, 42, 1 >> }

PoolDatagrams == { [src |-> c, bytes |-> b] : c \in Clients, b \in PoolRequests }

\* What a queried nameserver may send back: an address, ServFail, a referral
\* with glue, a single CNAME without a question; and the exchange may fail
PoolOutcomes ==
    { [io |-> "ok", bytes |-> DnsPacket_to_bytes(p)] :
        p \in { Reply(QueryId, RCode_NoError, Q_a, << RR_A(Name_a, Ip2) >>, <<>>, <<>>),
                Reply(QueryId, RCode_ServFail, Q_a, <<>>, <<>>, <<>>),
                Reply(QueryId, RCode_NoError, Q_a, <<>>, << RR_NS(Name_a, Name_n) >>,
                      << RR_A(Name_n, Ip1) >>),
                Reply(QueryId, RCode_NoError, <<>>, << RR_CNAME(Name_a, Name_b) >>,
                      <<>>, <<>>) } }
      \cup { [io |-> "err", bytes |-> <<>>] }

PoolSpecInit ==
    /\ PoolIdle
    /\ NameIdle /\ ServerIdle /\ CodecIdle /\ ErrIdle /\ FieldIdle

\* Thread i goes on to w.  A thread that overflows its stack ends the
\* process: the runtime's guard-page handler aborts, it does not unwind.
SetThread(i, w) ==
    /\ pool' = [pool EXCEPT ![i].w = w]
    /\ process' = IF w.pc = "aborted" THEN "aborted" ELSE process

\* main's loop: receive returns a datagram and thread::spawn starts a worker
\* for it; the JoinHandle is dropped.
PoolReceive(d) ==
    /\ process = "running"
    /\ accepted < MaxAccepted
    /\ accepted' = accepted + 1
    /\ pool' = [pool EXCEPT ![accepted + 1] =
                   [dgram |-> d,
                    w |-> Worker("spawned", None, <<>>, NoResult, None, NoReply, None)]]
    /\ UNCHANGED <<process, emitted, nameVars, serverVars, codecVars, errVars, fieldVars>>

\* thread i runs resolve_query up to its first upstream query
PoolServe(i) ==
    /\ process = "running"
    /\ pool[i].w.pc = "spawned"
    /\ SetThread(i, ResolveQueryEnd(ResolveQueryStart(DnsPacket_from_bytes(pool[i].dgram.bytes))))
    /\ UNCHANGED <<accepted, emitted, nameVars, serverVars, codecVars, errVars, fieldVars>>

\* thread i sends a query on a socket of its own and receives o
PoolExchange(i, o) ==
    /\ process = "running"
    /\ pool[i].w.pc = "resolving"
    /\ SetThread(i, ExchangeResult(pool[i].w.stack, pool[i].w.packet, o))
    /\ Len(pool'[i].w.stack) <= MaxNest
    /\ UNCHANGED <<accepted, emitted, nameVars, serverVars, codecVars, errVars, fieldVars>>

\* thread i calls respond and unwraps its result
PoolRespond(i, send_ok) ==
    /\ process = "running"
    /\ pool[i].w.pc = "responding"
    /\ IF DnsPacket_to_bytes_panics(pool[i].w.results.v)
       THEN pool' = [pool EXCEPT ![i].w.pc = "panicked"] /\ emitted' = emitted
       ELSE IF send_ok
       THEN /\ emitted' = Append(emitted,
                                 [worker |-> i, dest |-> pool[i].dgram.src,
                                  bytes |-> DnsPacket_to_bytes(pool[i].w.results.v)])
            /\ pool' = [pool EXCEPT ![i].w.pc = "replied"]
       ELSE pool' = [pool EXCEPT ![i].w.pc = "send_failed"] /\ emitted' = emitted
    /\ UNCHANGED <<process, accepted, nameVars, serverVars, codecVars, errVars, fieldVars>>

PoolNext ==
    \/ \E d \in PoolDatagrams : PoolReceive(d)
    \/ \E i \in 1..MaxAccepted : PoolServe(i)
    \/ \E i \in 1..MaxAccepted, o \in PoolOutcomes : PoolExchange(i, o)
    \/ \E i \in 1..MaxAccepted, send_ok \in BOOLEAN : PoolRespond(i, send_ok)

SpecPool == PoolSpecInit /\ [][PoolNext]_vars

-----------------------------------------------------------------------------
(* SpecFlags: DnsFlags::from_bytes then to_bytes on every two-byte word,    *)
(* and to_bytes then from_bytes on every DnsFlags value.                    *)

FlagWords == { << a, b >> : a \in 0..255, b \in 0..255 }

AllFlags ==
    { Flag(qr, opcode, aa, tc, rd, ra, ad, cd, rcode) :
        qr \in BOOLEAN, opcode \in DnsOpcodeValues, aa \in BOOLEAN, tc \in BOOLEAN,
        rd \in BOOLEAN, ra \in BOOLEAN, ad \in BOOLEAN, cd \in BOOLEAN,
        rcode \in DnsRCodeValues }

FlagsSpecInit ==
    /\ \/ fl_in \in { [kind |-> "word", word |-> w, flags |-> NullFlags] : w \in FlagWords }
       \/ fl_in \in { [kind |-> "value", word |-> <<0, 0>>, flags |-> f] : f \in AllFlags }
    /\ fl_out = [st |-> "idle", flags |-> NullFlags, bytes |-> <<>>]
    /\ RecordIdle /\ IntIdle
    /\ NameIdle /\ ServerIdle /\ PoolIdle /\ CodecIdle /\ ErrIdle

\* r is DnsFlags::from_bytes of the word; an Ok value is encoded again
FlagsDecoded(r) ==
    [st |-> r.st, flags |-> r.v,
     bytes |-> IF r.st = "ok" THEN DnsFlags_to_bytes(r.v) ELSE <<>>]

\* r is DnsFlags::from_bytes of b, the encoding of the value
FlagsEncoded(b, r) == [st |-> r.st, flags |-> r.v, bytes |-> b]

FlagsFromWord ==
    /\ fl_in.kind = "word" /\ fl_out.st = "idle"
    /\ fl_out' = FlagsDecoded(DnsFlags_from_bytes(fl_in.word))
    /\ UNCHANGED <<fl_in, recordVars, intVars, nameVars, serverVars, codecVars, errVars, poolVars>>

FlagsFromValue ==
    /\ fl_in.kind = "value" /\ fl_out.st = "idle"
    /\ fl_out' = FlagsEncoded(DnsFlags_to_bytes(fl_in.flags),
                              DnsFlags_from_bytes(DnsFlags_to_bytes(fl_in.flags)))
    /\ UNCHANGED <<fl_in, recordVars, intVars, nameVars, serverVars, codecVars, errVars, poolVars>>

FlagsNext == FlagsFromWord \/ FlagsFromValue

SpecFlags == FlagsSpecInit /\ [][FlagsNext]_vars

-----------------------------------------------------------------------------
(* SpecRecord: DnsResourceRecord::from_bytes on the wire form of one record *)
(* with any 16-bit class field, then to_bytes of the decoded record.        *)

\* a record for the root name: type, class, TTL 0, no data
RecordBytes(rr_type, class_num) ==
    << 0 >> \o from_u16(rr_type) \o from_u16(class_num) \o from_u32(<<0, 0>>) \o from_u16(0)

\* a record for the root name of class IN: type, TTL 0, the rdlength field
\* and the bytes that follow it in the buffer
RecordWithData(rr_type, rd_length, data) ==
    << 0 >> \o from_u16(rr_type) \o from_u16(1) \o from_u32(<<0, 0>>)
      \o from_u16(rd_length) \o data

\* n bytes 1, 2, .., n
Octets(n) == [i \in 1..n |-> i]

\* records whose rdlength field and whose data differ in length, records of
\* type A, AAAA and TXT with data of every length up to 17, and buffers
\* that end within the fixed fields
SizedRecords ==
    { RecordWithData(rr_type, rd_length, Octets(n)) :
        rr_type \in { RRType_A, RRType_AAAA, RRType_TXT },
        rd_length \in { 0, 3, 4, 5, 15, 16, 17, 300 }, n \in { 0, 2, 3, 4, 5, 15, 16, 17 } }
      \cup { SubSeq(RecordWithData(RRType_A, 4, Octets(4)), 1, n) : n \in 1..10 }

\* every OPT record, TXT records with known and unknown classes, and the
\* sized records
RecordInputs ==
    { RecordBytes(RRType_OPT, class_num) : class_num \in 0..65535 }
      \cup { RecordBytes(RRType_TXT, class_num) :
                class_num \in { 0, 1, 2, 3, 4, 5, 253, 254, 255, 256, 4096, 65535 } }
      \cup SizedRecords

RecordSpecInit ==
    /\ rr_in \in RecordInputs
    /\ rr_out = [st |-> "idle", v |-> NullRR, pos |-> 0, bytes |-> <<>>]
    /\ FlagsIdle /\ IntIdle
    /\ NameIdle /\ ServerIdle /\ PoolIdle /\ CodecIdle /\ ErrIdle

\* r is DnsResourceRecord::from_bytes(rr_in, 0)
RecordDecoded(r) == [st |-> r.st, v |-> r.v, pos |-> r.pos, bytes |-> <<>>]

RecordDecode ==
    /\ rr_out.st = "idle"
    /\ rr_out' = RecordDecoded(DnsResourceRecord_from_bytes(rr_in, 0))
    /\ UNCHANGED <<rr_in, flagsVars, intVars, nameVars, serverVars, codecVars, errVars, poolVars>>

RecordEncode ==
    /\ rr_out.st = "ok" /\ rr_out.bytes = <<>>
    /\ ~RecordTooLarge(rr_out.v)
    /\ rr_out' = [rr_out EXCEPT !.bytes = DnsResourceRecord_to_bytes(rr_out.v)]
    /\ UNCHANGED <<rr_in, flagsVars, intVars, nameVars, serverVars, codecVars, errVars, poolVars>>

RecordNext == RecordDecode \/ RecordEncode

SpecRecord == RecordSpecInit /\ [][RecordNext]_vars

-----------------------------------------------------------------------------
(* SpecInt: from_u16 / from_u32 of a number, then to_u16 / to_u32 of the    *)
(* bytes written, with further bytes following them in the slice.           *)

\* 16-bit halves at the edges of the byte and sign boundaries
HalfSamples == { 0, 1, 66, 255, 256, 6025, 8194, 32767, 32768, 32902, 65280, 65534, 65535 }

\* bytes following the number in the slice handed to to_u16 / to_u32
RestSamples == { <<>>, << 0 >>, << 255, 1 >> }

IntInputs ==
    { [width |-> 16, v |-> << 0, x >>, rest |-> <<>>] : x \in 0..65535 }
      \cup { [width |-> 16, v |-> << 0, x >>, rest |-> r] :
                x \in HalfSamples, r \in RestSamples }
      \cup { [width |-> 32, v |-> << hi, lo >>, rest |-> r] :
                hi \in HalfSamples, lo \in HalfSamples, r \in RestSamples }

IntSpecInit ==
    /\ int_in \in IntInputs
    /\ int_out = [done |-> FALSE, bytes |-> <<>>, v |-> <<0, 0>>]
    /\ FlagsIdle /\ RecordIdle
    /\ NameIdle /\ ServerIdle /\ PoolIdle /\ CodecIdle /\ ErrIdle

RoundTrip16 ==
    /\ int_in.width = 16 /\ ~int_out.done
    /\ int_out' = [done |-> TRUE, bytes |-> from_u16(int_in.v[2]),
                   v |-> << 0, to_u16(from_u16(int_in.v[2]) \o int_in.rest) >>]
    /\ UNCHANGED <<int_in, flagsVars, recordVars, nameVars, serverVars, codecVars, errVars, poolVars>>

RoundTrip32 ==
    /\ int_in.width = 32 /\ ~int_out.done
    /\ int_out' = [done |-> TRUE, bytes |-> from_u32(int_in.v),
                   v |-> to_u32(from_u32(int_in.v) \o int_in.rest)]
    /\ UNCHANGED <<int_in, flagsVars, recordVars, nameVars, serverVars, codecVars, errVars, poolVars>>

IntNext == RoundTrip16 \/ RoundTrip32

SpecInt == IntSpecInit /\ [][IntNext]_vars

-----------------------------------------------------------------------------
(* Properties of the name decoder, under SpecName *)

\* C1: name decoding ends on pointer loops: deserialize_name dereferences at
\* most as many pointers as the buffer has bytes, and never exhausts the call
\* stack by recursing without bound.
C1_PointerLoopsFail ==
    nm_state.derefs <= Len(nm_bytes) /\ nm_state.st # "overflow"

\* The labels that stand directly at pos, up to the zero byte or the pointer
\* that ends them (at), without following the pointer
RECURSIVE DirectLabels(_, _, _)
DirectLabels(bytes, pos, acc) ==
    IF pos >= Len(bytes) THEN [labels |-> acc, at |-> pos, end |-> "none"]
    ELSE IF bytes[pos + 1] = 0 THEN [labels |-> acc, at |-> pos, end |-> "zero"]
    ELSE IF bytes[pos + 1] >= 192 THEN [labels |-> acc, at |-> pos, end |-> "pointer"]
    ELSE IF bytes[pos + 1] < 64 /\ pos + 1 + bytes[pos + 1] <= Len(bytes)
    THEN DirectLabels(bytes, pos + 1 + bytes[pos + 1],
                      Append(acc, SubSeq(bytes, pos + 2, pos + 1 + bytes[pos + 1])))
    ELSE [labels |-> acc, at |-> pos, end |-> "none"]

PointerTarget(bytes, at) == (bytes[at + 1] % 64) * 256 + bytes[at + 2]

NameResultIs(labels, pos) == nm_state.labels = labels /\ nm_state.pos = pos

\* C12: a successful deserialize_name returns the labels that stand at start
\* followed, when a pointer ends them, by the labels of the name at the
\* pointer's target, and the position after the zero byte or after the two
\* bytes of that pointer; on the example of RFC 1035, start 20 gives
\* f.isi.arpa and 32, 40 gives foo.f.isi.arpa and 46, 64 gives arpa and 66,
\* 92 gives no label and 93.
C12_NameDecoding ==
    /\ nm_state.st = "ok" =>
         \/ /\ DirectLabels(nm_bytes, nm_start, <<>>).end = "zero"
            /\ NameResultIs(DirectLabels(nm_bytes, nm_start, <<>>).labels,
                            DirectLabels(nm_bytes, nm_start, <<>>).at + 1)
         \/ /\ DirectLabels(nm_bytes, nm_start, <<>>).end = "pointer"
            /\ deserialize_name(nm_bytes,
                   PointerTarget(nm_bytes, DirectLabels(nm_bytes, nm_start, <<>>).at)).st = "ok"
            /\ NameResultIs(
                   DirectLabels(nm_bytes, nm_start, <<>>).labels
                     \o deserialize_name(nm_bytes,
                            PointerTarget(nm_bytes, DirectLabels(nm_bytes, nm_start, <<>>).at)).labels,
                   DirectLabels(nm_bytes, nm_start, <<>>).at + 2)
    /\ (nm_bytes = RfcExample /\ nm_state.st # "run") =>
         /\ nm_state.st = "ok"
         /\ nm_start = 20 => NameResultIs(<< <<102>>, <<105, 115, 105>>, <<97, 114, 112, 97>> >>, 32)
         /\ nm_start = 40 =>
              NameResultIs(<< <<102, 111, 111>>, <<102>>, <<105, 115, 105>>, <<97, 114, 112, 97>> >>, 46)
         /\ nm_start = 64 => NameResultIs(<< <<97, 114, 112, 97>> >>, 66)
         /\ nm_start = 92 => NameResultIs(<<>>, 93)

C12_Witness ==
    nm_bytes = RfcExample /\ nm_start = 40 /\ nm_state.st = "ok" /\ nm_state.derefs = 1

\* the call in progress of the decoder, and the byte it stands on
TopFrame == nm_state.frames[Len(nm_state.frames)]
TopByte == nm_bytes[TopFrame.pos + 1]

\* C13: deserialize_name reads no index at or beyond the end of the buffer:
\* a position (the start, a pointer's target) at or beyond the end, a pointer
\* whose second byte is missing and a label that runs past the end each end
\* the decoding with a format error, and the only panic is that of a label
\* that is not UTF-8.
C13_BoundsSafe ==
    [][nm_state.st = "run" =>
          /\ TopFrame.pos >= Len(nm_bytes) => nm_state'.st = "err"
          /\ ( /\ TopFrame.pos < Len(nm_bytes)
               /\ TopByte >= 192
               /\ TopFrame.pos + 1 >= Len(nm_bytes) ) => nm_state'.st = "err"
          /\ ( /\ TopFrame.pos < Len(nm_bytes)
               /\ TopByte > 0 /\ TopByte < 64
               /\ TopFrame.pos + 1 + TopByte > Len(nm_bytes) ) => nm_state'.st = "err"
          /\ nm_state'.st = "panic" =>
                /\ TopByte > 0 /\ TopByte < 64
                /\ TopFrame.pos + 1 + TopByte <= Len(nm_bytes)
                /\ ~IsUtf8(SubSeq(nm_bytes, TopFrame.pos + 2, TopFrame.pos + 1 + TopByte))]_vars

\* a pointer whose target is the end of the buffer was followed and refused
C13_Witness ==
    nm_bytes = << 192, 2 >> /\ nm_start = 0 /\ nm_state.st = "err" /\ nm_state.derefs = 1

\* C14: for every name whose labels are 1 to 63 bytes long, and for the
\* name without labels, decoding its serialization from position 0 succeeds
\* and returns the name and the length of the serialization.
C14_NameRoundTrip ==
    \A n \in RoundTripNames :
        (nm_bytes = serialize_name(n) /\ nm_start = 0 /\ nm_state.st # "run")
        => nm_state.st = "ok" /\ NameResultIs(n, Len(serialize_name(n)))

C14_Witness ==
    /\ nm_state.st = "ok" /\ nm_start = 0
    /\ Len(nm_state.labels) = 3 /\ Len(nm_state.labels[1]) = 63
    /\ nm_bytes = serialize_name(nm_state.labels)

-----------------------------------------------------------------------------
(* Properties of the server and the resolver, under Spec *)

RequestId == to_u16(SubSeq(dgram.bytes, 1, 2))

\* C2: the depth of nested resolve_question calls never exceeds a fixed
\* limit.  The code states none: the only limit is MaxNest, the number of
\* calls the model follows, and the property says that the resolver stays
\* below it.
C2_NestingBounded == Len(stack) < MaxNest

\* the request's header decodes: twelve bytes and valid flags
HeaderDecodes(bytes) ==
    Len(bytes) >= 12 /\ DnsFlags_from_bytes(Slice(bytes, 2, 4)).st = "ok"

\* b is a FormErr reply to the request: its id, QR set, rcode FormError, four
\* empty sections
IsFormErrReply(b, request) ==
    /\ Len(b) = 12
    /\ SubSeq(b, 1, 2) = SubSeq(request, 1, 2)
    /\ Bit(b[3], 7)
    /\ b[4] % 16 = RCode_FormError
    /\ SubSeq(b, 5, 12) = << 0, 0, 0, 0, 0, 0, 0, 0 >>

\* C3: when the decoding of a datagram fails after its header was decoded,
\* the worker sends exactly one FormErr reply with the request's id to the
\* datagram's source.
C3_FormErrReplySent ==
    ( /\ pc \in { "replied", "failed", "panicked" }
      /\ HeaderDecodes(dgram.bytes)
      /\ DnsPacket_from_bytes(dgram.bytes).st = "err" )
    => /\ Len(out) = 1
       /\ out[1].dest = dgram.src
       /\ IsFormErrReply(out[1].bytes, dgram.bytes)

\* C4: a datagram shorter than 12 bytes fails to decode with a format error
\* that has no partial packet, without a panic, and nothing is sent for it.
C4_ShortDatagramFails ==
    (pc \notin { "idle", "spawned" } /\ Len(dgram.bytes) < 12)
    => /\ pc = "failed"
       /\ out = <<>>
       /\ DnsPacket_from_bytes(dgram.bytes).st = "err"
       /\ ~DnsPacket_from_bytes(dgram.bytes).partial.some

\* the reply last received has rcode NoError and a CNAME as its only answer
SingleCnameReply ==
    /\ last_reply.some
    /\ last_reply.v.flags.rcode = RCode_NoError
    /\ Len(last_reply.v.answers) = 1
    /\ last_reply.v.answers[1].record.tag = "CNAME"

\* C6: a reply whose only answer is a CNAME starts a resolution of the CNAME
\* target with the qtype and qclass of the question being resolved: every
\* call waiting in handle_answers waits for a call with that question, and
\* the worker does not panic on such a reply.
C6_CnameChase ==
    /\ \A i \in 1..(Len(stack) - 1) :
          stack[i].wait = "cname" =>
              stack[i + 1].question =
                  [qname |-> stack[i].response.answers[1].record.data,
                   qtype |-> stack[i].question.qtype,
                   qclass |-> stack[i].question.qclass]
    /\ SingleCnameReply => pc # "panicked"

\* C7: when the queried nameserver answers NXDomain, the resolve_question
\* call that asked returns that reply unchanged and asks nobody else; when it
\* is the outermost call the server changes only the id and the RA bit and
\* sends that.
C7_NXDomainReturned ==
    (last_reply.some /\ last_reply.v.flags.rcode = RCode_NXDomain)
    => /\ call_ret = Some(last_reply.v)
       /\ last_reply.depth = 1 =>
             /\ pc \in { "responding", "replied", "send_failed" }
             /\ stack = <<>>
             /\ ret = [st |-> "ok", v |-> last_reply.v]
             /\ results = Some([last_reply.v EXCEPT !.id = RequestId, !.flags.ra_bit = TRUE])
             /\ pc = "replied" =>
                   out = << [dest |-> dgram.src, bytes |-> DnsPacket_to_bytes(results.v)] >>

C7_Witness ==
    /\ pc = "replied"
    /\ last_reply.some /\ last_reply.v.flags.rcode = RCode_NXDomain /\ last_reply.depth = 1
    /\ last_reply.v.nameservers # <<>>
    /\ Len(out) = 1

\* C8: a reply sent for a resolved request carries the id of the request
\* datagram and has the RA bit set; everything else is the resolver's result.
C8_ReplyIdAndRA ==
    (ret.st = "ok" /\ out # <<>>)
    => /\ Len(out) = 1
       /\ to_u16(SubSeq(out[1].bytes, 1, 2)) = RequestId
       /\ Bit(out[1].bytes[4], 7)
       /\ out[1].bytes =
             DnsPacket_to_bytes([ret.v EXCEPT !.id = RequestId, !.flags.ra_bit = TRUE])

C8_Witness ==
    /\ pc = "replied" /\ ret.st = "ok" /\ Len(out) = 1
    /\ ret.v.id # RequestId /\ ~ret.v.flags.ra_bit
    /\ Len(ret.v.answers) = 2

\* C9: a decoded request that does not have exactly one question fails: the
\* resolver is not called, no upstream query is sent, nothing is sent back.
C9_QuestionCountRefused ==
    (packet.some /\ Len(packet.v.questions) # 1)
    => /\ pc = "failed"
       /\ stack = <<>> /\ ret = NoResult /\ results = None
       /\ ~sent.some /\ ~last_reply.some
       /\ out = <<>>

C9_Witness == packet.some /\ Len(packet.v.questions) = 2 /\ pc = "failed"

\* bytes are a query for question q: one question equal to q, every flag
\* bit clear, opcode Query, rcode NoError, no record
IsQueryFor(bytes, q) ==
    /\ bytes[3] = 0 /\ bytes[4] = 0
    /\ DnsPacket_from_bytes(bytes).st = "ok"
    /\ DnsPacket_from_bytes(bytes).v.questions = << q >>
    /\ DnsPacket_from_bytes(bytes).v.flags =
          [qr_bit |-> FALSE, opcode |-> Opcode_Query, aa_bit |-> FALSE,
           tc_bit |-> FALSE, rd_bit |-> FALSE, ra_bit |-> FALSE,
           ad_bit |-> FALSE, cd_bit |-> FALSE, rcode |-> RCode_NoError]
    /\ DnsPacket_from_bytes(bytes).v.answers = <<>>
    /\ DnsPacket_from_bytes(bytes).v.nameservers = <<>>
    /\ DnsPacket_from_bytes(bytes).v.addl_recs = <<>>

\* C11: every query sent upstream, by the outermost call and by every nested
\* one, has exactly one question, the question of the resolve_question call
\* that sends it, QR = 0, opcode Query, RD = 0, every other flag clear, rcode
\* NoError and no record.
C11_QueryContents ==
    [][pc = "resolving" =>
          sent'.some /\ IsQueryFor(sent'.bytes, stack[Len(stack)].question)]_vars

C11_Witness ==
    /\ sent.some
    /\ last_reply.some /\ last_reply.depth = 2
    /\ IsQueryFor(sent.bytes, [qname |-> Name_n, qtype |-> RRType_A, qclass |-> Class("IN")])

\* the least element of a non-empty set of positions
First(S) == CHOOSE i \in S : \A j \in S : i <= j

\* the positions of the records of type t in a section
OfType(section, t) == { i \in 1..Len(section) : section[i].rr_type = t }

\* the positions of the A records of a section named name
GlueFor(section, name) == { i \in OfType(section, RRType_A) : section[i].name = name }

\* What the call `top`, innermost of `before`, does with the referral r
\* (rcode NoError, no answer): `after` and pcv are the calls in progress and
\* the worker's position when the step is over.
ReferralFollowed(r, before, after, pcv) ==
    IF OfType(r.nameservers, RRType_NS) = {} THEN pcv = "failed"
    ELSE IF GlueFor(r.addl_recs,
                    r.nameservers[First(OfType(r.nameservers, RRType_NS))].record.data) # {}
    THEN /\ pcv = "resolving"
         /\ after =
               [before EXCEPT ![Len(before)].ns =
                   r.addl_recs[First(GlueFor(r.addl_recs,
                       r.nameservers[First(OfType(r.nameservers, RRType_NS))].record.data))
                     ].record.data[1]]
    ELSE /\ pcv = "resolving"
         /\ after =
               Append([before EXCEPT ![Len(before)].wait = "ns"],
                      [question |->
                           [qname |-> r.nameservers[First(OfType(r.nameservers, RRType_NS))
                                        ].record.data,
                            qtype |-> RRType_A, qclass |-> Class("IN")],
                       ns |-> get_root_nameserver, wait |-> "run", response |-> NullPacket])

\* C21: on a NoError reply without answers the call takes the first NS record
\* of the authority section and fails when there is none; it asks next the
\* address of the first A record of the additional section named like the NS
\* target, or else the first A address of the answers of a nested resolution
\* of (NS target, A, IN); its question stays the same, and every query goes
\* to the nameserver the innermost call holds.
C21_ReferralHandling ==
    [][ /\ pc = "resolving" => sent'.ns = stack[Len(stack)].ns
        /\ ( /\ pc = "resolving" /\ last_reply'.some
             /\ last_reply'.v.flags.rcode = RCode_NoError
             /\ last_reply'.v.answers = <<>> )
           => ReferralFollowed(last_reply'.v, stack, stack', pc')
        /\ ( /\ pc = "resolving" /\ pc' = "resolving"
             /\ Len(stack') = Len(stack) - 1
             /\ call_ret' = Some(last_reply'.v) )
           => /\ stack[Len(stack')].wait = "ns"
              /\ OfType(last_reply'.v.answers, RRType_A) # {}
              /\ stack' =
                    [SubSeq(stack, 1, Len(stack'))
                       EXCEPT ![Len(stack')].wait = "run",
                              ![Len(stack')].ns =
                                  last_reply'.v.answers[
                                      First(OfType(last_reply'.v.answers, RRType_A))
                                    ].record.data[1]]
      ]_vars

\* a referral without glue was followed: the nested resolution of the NS
\* target returned an answer, and the outer call asks that address next
C21_Witness ==
    /\ pc = "resolving" /\ Len(stack) = 1
    /\ last_reply.some /\ last_reply.depth = 2
    /\ stack[1].question = [qname |-> Name_a, qtype |-> RRType_A, qclass |-> Class("IN")]
    /\ stack[1].ns = Ip2

\* C22: when a reply has an rcode other than NoError and NXDomain, the
\* resolution fails at once, whatever the depth of the call that asked: no
\* call is left in progress, so nobody else is asked, and no datagram is sent
\* to the client.
C22_OtherRcodeFails ==
    (last_reply.some /\ last_reply.v.flags.rcode \notin { RCode_NoError, RCode_NXDomain })
    => /\ pc = "failed"
       /\ stack = <<>>
       /\ ret = [st |-> "failed", v |-> NullPacket]
       /\ results = None
       /\ out = <<>>
       /\ \A o \in UpstreamOutcomes : ~ENABLED Exchange(o)
       /\ \A send_ok \in BOOLEAN : ~ENABLED Respond(send_ok)

\* a nested call received ServFail and the request ended without a reply
C22_Witness ==
    /\ last_reply.some /\ last_reply.v.flags.rcode = RCode_ServFail
    /\ last_reply.depth = 2
    /\ pc = "failed" /\ out = <<>>

\* the transaction id of an encoded packet
PacketId(bytes) == bytes[1] * 256 + bytes[2]

\* C26: each query carries a fresh transaction id: a query sent after another
\* one, by the same call or by a nested one, does not carry the id of the
\* query before it.
C26_FreshQueryId ==
    [][(pc = "resolving" /\ sent.some) => PacketId(sent'.bytes) # PacketId(sent.bytes)]_vars

\* C27: a decoded datagram whose id differs from the id of the query sent is
\* not taken for the reply: the call that received it does not return it
\* and the resolution does not end with a result made from it.
C27_ReplyIdMatched ==
    (sent.some /\ last_reply.some /\ last_reply.v.id # PacketId(sent.bytes))
    => /\ call_ret # Some(last_reply.v)
       /\ ret.st # "ok"

\* C29: the resolver does not panic on a reply that decodes: whatever the
\* reply received, the resolution goes on, returns a reply or returns an
\* error.
C29_NoPanicOnReply == last_reply.some => ret.st # "panicked"

\* the call in handle_answers and the call chasing its CNAME are the only
\* calls in progress
ChasingCname == Len(stack) = 2 /\ stack[1].wait = "cname"

\* C30: when the call chasing a CNAME returns a reply, NXDomain included, the
\* result is the first reply with the second reply's answers, nameservers and
\* additional records appended: id, flags (rcode NoError) and question are
\* the first reply's; the client is sent that with its own id and RA set.
\* When the chasing call fails, the resolution fails and nothing is sent.
C30_CnameMerge ==
    [][ /\ ( /\ pc = "resolving" /\ ChasingCname
             /\ call_ret' = Some(last_reply'.v) )
           => /\ pc' = "responding"
              /\ ret'.st = "ok"
              /\ ret'.v.id = stack[1].response.id
              /\ ret'.v.flags = stack[1].response.flags
              /\ ret'.v.flags.rcode = RCode_NoError
              /\ ret'.v.questions = stack[1].response.questions
              /\ ret'.v.answers = stack[1].response.answers \o last_reply'.v.answers
              /\ ret'.v.nameservers =
                    stack[1].response.nameservers \o last_reply'.v.nameservers
              /\ ret'.v.addl_recs = stack[1].response.addl_recs \o last_reply'.v.addl_recs
              /\ results' = Some([ret'.v EXCEPT !.id = RequestId, !.flags.ra_bit = TRUE])
        /\ ( /\ pc = "resolving" /\ ChasingCname
             /\ pc' \in { "failed", "panicked" } )
           => ret'.st # "ok" /\ results' = None /\ out' = <<>>
      ]_vars

\* the CNAME target did not exist: the client was sent rcode NoError, the
\* CNAME and the authority records of the NXDomain reply
C30_Witness ==
    /\ pc = "replied" /\ Len(out) = 1
    /\ last_reply.some /\ last_reply.depth = 2
    /\ last_reply.v.flags.rcode = RCode_NXDomain
    /\ ret.v.flags.rcode = RCode_NoError
    /\ ret.v.answers = << RR_CNAME(Name_a, Name_b) >>
    /\ Len(ret.v.nameservers) = 2
    /\ out[1].bytes[4] % 16 = RCode_NoError

-----------------------------------------------------------------------------
(* Properties of the threads running side by side, under SpecPool *)

\* thread i ended without sending a reply
ThreadLost(i) == pool[i].w.pc \in { "failed", "panicked", "send_failed", "aborted" }

\* thread j, when it is not over, can take its next step
ThreadGoesOn(j) ==
    /\ pool[j].w.pc = "spawned" => ENABLED PoolServe(j)
    /\ pool[j].w.pc = "resolving" => \E o \in PoolOutcomes : ENABLED PoolExchange(j, o)
    /\ pool[j].w.pc = "responding" => ENABLED PoolRespond(j, TRUE)

\* C23: a worker that fails or panics ends only itself: the process keeps
\* running, so the acceptor goes on receiving, and every other worker in
\* flight can still go on to send its own reply.
C23_WorkersIndependent ==
    \A i \in 1..MaxAccepted :
        ThreadLost(i) =>
            /\ process = "running"
            /\ \A j \in (1..MaxAccepted) \ {i} : ThreadGoesOn(j)

-----------------------------------------------------------------------------
(* Properties of the flags codec, under SpecFlags *)

\* C15: decoding the encoding of any DnsFlags value succeeds and gives the
\* value back, the encoding never has the Z bit (byte 1, bit 6) set, and
\* encoding the decoding of any accepted word gives the word back.
C15_FlagsRoundTrip ==
    /\ (fl_in.kind = "value" /\ fl_out.st # "idle") =>
          /\ fl_out.st = "ok" /\ fl_out.flags = fl_in.flags
          /\ Len(fl_out.bytes) = 2
          /\ (fl_out.bytes[2] % 128) \div 64 = 0
    /\ (fl_in.kind = "word" /\ fl_out.st = "ok") => fl_out.bytes = fl_in.word

C15_Witness ==
    /\ fl_in.kind = "value" /\ fl_out.st = "ok"
    /\ fl_in.flags = Flag(TRUE, 6, TRUE, TRUE, TRUE, TRUE, TRUE, TRUE, 11)

\* C16: an accepted word decodes by the fixed layout: byte 0 bit 7 QR, bits
\* 3..6 the opcode, bit 2 AA, bit 1 TC, bit 0 RD; byte 1 bit 7 RA, bit 5 AD,
\* bit 4 CD, bits 0..3 the rcode; 01 20 is a Query with RD and AD only,
\* AC 23 a response with opcode Update (5), AA, AD and rcode NXDomain.
C16_FlagsLayout ==
    /\ (fl_in.kind = "word" /\ fl_out.st = "ok") =>
          fl_out.flags =
              [qr_bit |-> fl_in.word[1] \div 128 = 1,
               opcode |-> (fl_in.word[1] % 128) \div 8,
               aa_bit |-> (fl_in.word[1] % 8) \div 4 = 1,
               tc_bit |-> (fl_in.word[1] % 4) \div 2 = 1,
               rd_bit |-> fl_in.word[1] % 2 = 1,
               ra_bit |-> fl_in.word[2] \div 128 = 1,
               ad_bit |-> (fl_in.word[2] % 64) \div 32 = 1,
               cd_bit |-> (fl_in.word[2] % 32) \div 16 = 1,
               rcode |-> fl_in.word[2] % 16]
    /\ (fl_in.kind = "word" /\ fl_in.word = << 1, 32 >> /\ fl_out.st # "idle") =>
          /\ fl_out.st = "ok"
          /\ fl_out.flags = Flag(FALSE, Opcode_Query, FALSE, FALSE, TRUE, FALSE, TRUE, FALSE,
                                 RCode_NoError)
    /\ (fl_in.kind = "word" /\ fl_in.word = << 172, 35 >> /\ fl_out.st # "idle") =>
          /\ fl_out.st = "ok"
          /\ fl_out.flags = Flag(TRUE, 5, TRUE, FALSE, FALSE, FALSE, TRUE, FALSE,
                                 RCode_NXDomain)

C16_Witness == fl_in.kind = "word" /\ fl_in.word = << 172, 35 >> /\ fl_out.st = "ok"

\* C17: a word is accepted exactly when its Z bit is 0, its opcode is one of
\* 0, 1, 2, 4, 5, 6 and its rcode is at most 11; every other word is a format
\* error.
C17_FlagsAccepted ==
    (fl_in.kind = "word" /\ fl_out.st # "idle") =>
        IF /\ (fl_in.word[2] % 128) \div 64 = 0
           /\ (fl_in.word[1] % 128) \div 8 \in {0, 1, 2, 4, 5, 6}
           /\ fl_in.word[2] % 16 <= 11
        THEN fl_out.st = "ok"
        ELSE fl_out.st = "err"

\* a word with only the Z bit set was refused
C17_Witness == fl_in.kind = "word" /\ fl_in.word = << 0, 64 >> /\ fl_out.st = "err"

-----------------------------------------------------------------------------
(* Properties of the record codec, under SpecRecord *)

\* the record read is an OPT record for the root name
IsOptInput == Len(rr_in) >= 11 /\ rr_in[1] = 0 /\ rr_in[2] * 256 + rr_in[3] = 41

\* the class field of the record read
ClassField(bytes) == bytes[4] * 256 + bytes[5]

\* C19: an OPT record decodes, whatever its 16-bit class field c is, to a
\* record whose class is EdnsPayloadSize(c), and that record encodes with the
\* same c in its class field.
C19_OptPayloadSize ==
    (IsOptInput /\ rr_out.st # "idle") =>
        /\ rr_out.st = "ok"
        /\ rr_out.v.rr_type = RRType_OPT
        /\ rr_out.v.class = [tag |-> "EdnsPayloadSize", payload |-> ClassField(rr_in)]
        /\ rr_out.bytes # <<>> =>
              /\ Len(rr_out.bytes) = Len(rr_in)
              /\ ClassField(rr_out.bytes) = ClassField(rr_in)

\* an OPT record announcing a payload size of 4096 was decoded and encoded
\* back to the bytes it was read from
C19_Witness ==
    /\ IsOptInput /\ ClassField(rr_in) = 4096
    /\ rr_out.st = "ok" /\ rr_out.bytes = rr_in

-----------------------------------------------------------------------------
(* Properties of the integer helpers, under SpecInt *)

\* C20: from_u16 and from_u32 write a number most significant byte first,
\* to_u16 and to_u32 read it back from the first two (four) bytes of a slice,
\* and the bytes that follow them in the slice do not change the result.
C20_BigEndianRoundTrip ==
    int_out.done =>
        /\ int_out.v = int_in.v
        /\ int_in.width = 16 =>
              int_out.bytes = << int_in.v[2] \div 256, int_in.v[2] % 256 >>
        /\ int_in.width = 32 =>
              int_out.bytes = << int_in.v[1] \div 256, int_in.v[1] % 256,
                                 int_in.v[2] \div 256, int_in.v[2] % 256 >>

\* 0x20028086 was written as 20 02 80 86 and read back from a slice with
\* two further bytes
C20_Witness ==
    /\ int_out.done /\ int_in.width = 32
    /\ int_in.v = << 8194, 32902 >> /\ int_in.rest = << 255, 1 >>
    /\ int_out.bytes = << 32, 2, 128, 134 >>

\* the rdlength field of the record read, which has the root name
RdLengthField(bytes) == bytes[10] * 256 + bytes[11]

\* the type field of the record read
TypeField(bytes) == bytes[2] * 256 + bytes[3]

\* C24: a record that is cut short is refused with a format error: when
\* fewer than 10 bytes follow the name, or when the rdlength field is larger
\* than the number of bytes that follow the fixed fields, from_bytes returns
\* Err and does not panic.
C24_TruncatedRecordRefused ==
    ( /\ rr_out.st # "idle"
      /\ \/ Len(rr_in) < 11
         \/ RdLengthField(rr_in) > Len(rr_in) - 11 )
    => rr_out.st = "err"

\* C25: a record of type A is accepted only with rdlength 4 and a record of
\* type AAAA only with rdlength 16; with any other rdlength, the data being
\* all there, from_bytes returns a format error.
C25_FixedSizesEnforced ==
    ( /\ rr_out.st # "idle"
      /\ Len(rr_in) >= 11
      /\ RdLengthField(rr_in) <= Len(rr_in) - 11
      /\ TypeField(rr_in) \in { RRType_A, RRType_AAAA } )
    => IF RdLengthField(rr_in) = (IF TypeField(rr_in) = RRType_A THEN 4 ELSE 16)
       THEN rr_out.st = "ok"
       ELSE rr_out.st = "err"

-----------------------------------------------------------------------------
(* Properties of the codec, under SpecCodec *)

\* C5: decoding the encoding of a well-formed packet succeeds and gives the
\* packet back, whatever record-data length its records store.
C5_RoundTrip ==
    cd_out.st \notin { "idle", "encoded" } => cd_out.st = "ok" /\ cd_out.v = cd_in

\* the 16-bit count at header offset off (4 QD, 6 AN, 8 NS, 10 AR) of bytes
HeaderCount(bytes, off) == bytes[off + 1] * 256 + bytes[off + 2]

\* C18: to_bytes writes the lengths of the question, answer, nameserver and
\* additional sections as the QD, AN, NS and AR counts, followed by the
\* sections in that order; a successful from_bytes returns four sections
\* whose lengths are the header counts of the bytes it read.
C18_SectionCounts ==
    /\ cd_out.st # "idle" =>
          /\ Len(cd_bytes) >= 12
          /\ HeaderCount(cd_bytes, 4) = Len(cd_in.questions)
          /\ HeaderCount(cd_bytes, 6) = Len(cd_in.answers)
          /\ HeaderCount(cd_bytes, 8) = Len(cd_in.nameservers)
          /\ HeaderCount(cd_bytes, 10) = Len(cd_in.addl_recs)
          /\ SubSeq(cd_bytes, 13, Len(cd_bytes)) =
                QuestionsToBytes(cd_in.questions) \o RecordsToBytes(cd_in.answers)
                  \o RecordsToBytes(cd_in.nameservers) \o RecordsToBytes(cd_in.addl_recs)
    /\ cd_out.st = "ok" =>
          /\ Len(cd_out.v.questions) = HeaderCount(cd_bytes, 4)
          /\ Len(cd_out.v.answers) = HeaderCount(cd_bytes, 6)
          /\ Len(cd_out.v.nameservers) = HeaderCount(cd_bytes, 8)
          /\ Len(cd_out.v.addl_recs) = HeaderCount(cd_bytes, 10)

\* a packet with 2 questions, 2 answers, 1 nameserver and 1 additional record
\* was encoded and decoded
C18_Witness ==
    /\ cd_out.st = "ok"
    /\ Len(cd_in.questions) = 2 /\ Len(cd_in.answers) = 2
    /\ Len(cd_in.nameservers) = 1 /\ Len(cd_in.addl_recs) = 1

\* C28: serialize_name fails on a label longer than 63 bytes and emits
\* nothing for it: when a packet was encoded, the first label of its first
\* question is at most 63 bytes long, and the length octet written for it is
\* the label's length, with its top two bits clear.
C28_LongLabelRefused ==
    ( /\ cd_out.st # "idle"
      /\ cd_in.questions # <<>>
      /\ cd_in.questions[1].qname # <<>> )
    => /\ Len(cd_in.questions[1].qname[1]) <= 63
       /\ cd_bytes[13] = Len(cd_in.questions[1].qname[1])
       /\ cd_bytes[13] \div 64 = 0

-----------------------------------------------------------------------------
(* Properties of get_error_response, under SpecErr *)

\* C10: for an error with a partial packet p, get_error_response returns a
\* packet with p's id, QR set, rcode FormError, AA, TC, RA and AD cleared,
\* p's opcode, RD and CD, and four empty sections; for an error without a
\* partial packet it returns nothing.
C10_FormErrSynthesis ==
    er_out.done =>
        IF er_in.partial.some
        THEN /\ er_out.r.some
             /\ er_out.r.v.id = er_in.partial.v.id
             /\ er_out.r.v.flags =
                   [qr_bit |-> TRUE, opcode |-> er_in.partial.v.flags.opcode,
                    aa_bit |-> FALSE, tc_bit |-> FALSE,
                    rd_bit |-> er_in.partial.v.flags.rd_bit, ra_bit |-> FALSE,
                    ad_bit |-> FALSE, cd_bit |-> er_in.partial.v.flags.cd_bit,
                    rcode |-> RCode_FormError]
             /\ er_out.r.v.questions = <<>> /\ er_out.r.v.answers = <<>>
             /\ er_out.r.v.nameservers = <<>> /\ er_out.r.v.addl_recs = <<>>
        ELSE er_out.r = None

C10_Witness ==
    /\ er_out.done /\ er_out.r.some
    /\ er_in.partial.v.flags.aa_bit /\ er_in.partial.v.flags.ra_bit
    /\ er_in.partial.v.flags.rcode # RCode_FormError
    /\ er_in.partial.v.questions # <<>> /\ er_in.partial.v.answers # <<>>

=============================================================================
